---- MODULE Spec2Model ----
(***************************************************************************)
(* Model of the batch stock ledger and the account ledger of the Tauri     *)
(* backend (src/tauri/src/lib.rs) and of its Database wrapper              *)
(* (src/tauri/src/db.rs).                                                  *)
(*                                                                         *)
(* Numbers.  The code computes in f64.  The model computes in integers on  *)
(* a grid: a quantity is counted in steps of half the last digit round6    *)
(* keeps (QStep steps make 10^-6), money in steps of half the last digit   *)
(* round2 keeps (MStep steps make 0.01).  The quantities the commands are  *)
(* given carry at most six decimals, so they are multiples of QStep; the   *)
(* tolerance 1e-9 of the stock checks is smaller than one step, so         *)
(* "x > y + 1e-9" is "x > y" on the grid.                                  *)
(***************************************************************************)
EXTENDS Integers, Sequences, FiniteSets, TLC

VARIABLES
    currencies,                \* table currencies: id -> [name, base]
    units,                     \* table units: id -> [ratio]
    purchase_items,            \* table purchase_items (batches): id -> row
    sale_discount_codes,       \* table sale_discount_codes: set of rows
    sales,                     \* table sales: set of rows
    sale_items,                \* table sale_items: set of rows
    sale_payments,             \* table sale_payments: set of rows
    accounts,                  \* table accounts: id -> row
    account_transactions,      \* table account_transactions: set of rows
    account_currency_balances, \* table account_currency_balances: <<account, currency>> -> balance
    journal_entries,           \* table journal_entries: set of rows
    journal_entry_lines,       \* table journal_entry_lines: set of rows
    purchase_payments,         \* table purchase_payments: set of rows
    expenses,                  \* table expenses: set of rows
    next_id,                   \* AUTO_INCREMENT counters: table name -> next id
    result,                    \* the last command and what it returned
    db_state,                  \* Mutex of the managed database state: process -> holder
    conn,                      \* Database.conn: Mutex<Option<Conn>>, the MySQL connection
    pc,                        \* command in progress: thread -> where it stands
    call                       \* command in progress: thread -> its arguments and locals

\* the tables that no command of the sales and of the ledger writes
catalog == <<currencies, units, purchase_items, sale_discount_codes>>

tables == <<catalog, sales, sale_items, sale_payments, accounts,
            account_transactions, account_currency_balances, journal_entries,
            journal_entry_lines, purchase_payments, expenses, next_id>>

\* the commands in progress; a command that is modelled as one step leaves them alone
threads == <<db_state, conn, pc, call>>

vars == <<tables, result, threads>>

----------------------------------------------------------------------------
(* Bounds of the model *)

MaxAmount == 1        \* quantities given to a command: QStep * (1..MaxAmount)
MaxSales == 2         \* sales rows ever inserted
MaxSaleItems == 3     \* sale_items rows ever inserted
MaxLines == 2         \* product lines in one create_sale / update_sale call
MaxMoney == 2         \* money given to a command: MStep * (-1..MaxMoney)
MaxTx == 2            \* account_transactions rows ever inserted
MaxRows == 1          \* rows ever inserted by create_sale_payment, create_purchase_payment
                      \* and create_expense together
MaxEntries == 2       \* journal entries ever inserted by create_journal_entry
MaxSubtotal == 5      \* subtotal of a priced line, in steps of half a cent
MaxCodes == 2         \* rows of sale_discount_codes ever inserted
MaxBatches == 4       \* rows of purchase_items ever inserted
MaxCurrencies == 3    \* rows of currencies ever inserted
MaxUnits == 2         \* rows of units ever inserted
MaxConns == 2         \* connections Conn::new tells apart
MaxPrepared == 2      \* statements prepared on one connection

QStep == 2
MStep == 2
NumberWidth == 6       \* digits an entry number is padded to
DayWidth == 2          \* digits of a day in a date (%d)

NULL == 0

\* Option<T>: None, Some(x)
None == <<>>
Some(x) == <<x>>

\* the open connection on which the commands of the application run
OpenConnection == Some([id |-> 1, prepared |-> 0])

Amounts == {QStep * k : k \in 1..MaxAmount}

\* What the commands of the stock ledger are given
UnitIds == {1, 2}
BatchRefs == {NULL, 1, 2}
Prices == {1}
Rates == {1, 2}
PaidAmounts == {0, 2}
SaleCurrencies == {NULL, 2}
LineDiscounts == {<<"none", 0>>}
OrderDiscounts == {<<"none", 0>>}
AdditionalCostLists == {<<>>}

ItemInputs ==
    [unit_id : UnitIds, per_price : Prices, amount : Amounts,
     purchase_item_id : BatchRefs, discount : LineDiscounts]

ItemLists == UNION {[1..n -> ItemInputs] : n \in 0..MaxLines}

----------------------------------------------------------------------------
(* Pure helpers *)

\* f64::round of x / step, in steps: round half away from zero
RoundSteps(x, step) ==
    IF x >= 0 THEN ((2 * x + step) \div (2 * step)) * step
    ELSE -(((2 * (-x) + step) \div (2 * step)) * step)

round2(x) == RoundSteps(x, MStep)

round6(x) == RoundSteps(x, QStep)

Max(a, b) == IF a >= b THEN a ELSE b

Min(a, b) == IF a <= b THEN a ELSE b

RECURSIVE SumField(_, _)
SumField(S, f) ==
    IF S = {} THEN 0
    ELSE LET x == CHOOSE y \in S : TRUE IN x[f] + SumField(S \ {x}, f)

RECURSIVE SumSeq(_)
SumSeq(q) == IF q = <<>> THEN 0 ELSE Head(q) + SumSeq(Tail(q))

----------------------------------------------------------------------------
(* Unit conversion and batch stock *)

\* SELECT COALESCE(ratio, 1) FROM units WHERE id = ?; 1.0 when no row
get_unit_ratio(unit_id) ==
    IF unit_id \in DOMAIN units THEN units[unit_id].ratio ELSE 1

\* the amount of the mutated conversion: the unit is ignored
AmountAsGiven(amount, unit_id) == amount

amount_to_base(amount, unit_id) == amount * get_unit_ratio(unit_id)

RECURSIVE SumBase(_)
SumBase(rows) ==
    IF rows = {} THEN 0
    ELSE LET r == CHOOSE y \in rows : TRUE
         IN amount_to_base(r.amount, r.unit_id) + SumBase(rows \ {r})

\* the rows of sale_items that reference the batch
Consumptions(items, purchase_item_id) ==
    {r \in items : r.purchase_item_id = purchase_item_id}

\* remaining quantity of a batch in base units, over a given sale_items table
BatchRemainingBase(items, purchase_item_id) ==
    LET pi == purchase_items[purchase_item_id]
        pi_base == amount_to_base(pi.amount, pi.unit_id)
        sold_base == SumBase(Consumptions(items, purchase_item_id))
    IN round6(Max(pi_base - sold_base, 0))

get_batch_remaining_base(purchase_item_id) ==
    BatchRemainingBase(sale_items, purchase_item_id)

----------------------------------------------------------------------------
(* Pricing *)

\* round2 of the quotient n / d
round2_div(n, d) ==
    IF n >= 0 THEN ((2 * n + d * MStep) \div (2 * d * MStep)) * MStep
    ELSE -(((2 * (-n) + d * MStep) \div (2 * d * MStep)) * MStep)

compute_discount_amount(subtotal, discount_type, discount_value) ==
    IF subtotal <= 0 THEN 0
    ELSE IF discount_type = "percent"
         THEN round2_div(subtotal * Max(Min(discount_value, 100), 0), 100)
    ELSE IF discount_type = "fixed"
         THEN round2(Max(Min(discount_value, subtotal), 0))
    ELSE 0

\* line total after the line discount
LineTotal(per_price, amount, discount) ==
    LET line_subtotal == per_price * amount
        disc == compute_discount_amount(line_subtotal, discount[1], discount[2])
    IN round2(line_subtotal - disc)

----------------------------------------------------------------------------
(* Per-currency balances and the journal *)

\* SELECT balance FROM account_currency_balances ...; 0.0 when no row
BalanceIn(acb, account_id, currency_id) ==
    IF <<account_id, currency_id>> \in DOMAIN acb
    THEN acb[<<account_id, currency_id>>] ELSE 0

get_account_balance_by_currency_internal(account_id, currency_id) ==
    BalanceIn(account_currency_balances, account_id, currency_id)

\* INSERT ... ON DUPLICATE KEY UPDATE balance = VALUES(balance)
update_account_currency_balance_internal(acb, account_id, currency_id, balance) ==
    [p \in DOMAIN acb \cup {<<account_id, currency_id>>} |->
        IF p = <<account_id, currency_id>> THEN balance ELSE acb[p]]

ApplyFirstLine(acb, lines) ==
    IF lines = <<>> THEN acb
    ELSE LET l == Head(lines)
         IN update_account_currency_balance_internal(
                acb, l.account_id, l.currency_id,
                BalanceIn(acb, l.account_id, l.currency_id)
                + l.debit_amount - l.credit_amount)

\* the balance loop of create_journal_entry_internal: one read and one upsert per line
RECURSIVE ApplyLines(_, _)
ApplyLines(acb, lines) ==
    IF lines = <<>> THEN acb
    ELSE LET l == Head(lines)
             current_balance == BalanceIn(acb, l.account_id, l.currency_id)
             new_balance == IF l.debit_amount > 0
                            THEN current_balance + l.debit_amount
                            ELSE current_balance - l.credit_amount
         IN ApplyLines(update_account_currency_balance_internal(
                           acb, l.account_id, l.currency_id, new_balance),
                       Tail(lines))

JournalLine(account_id, currency_id, debit_amount, credit_amount, exchange_rate) ==
    [account_id |-> account_id, currency_id |-> currency_id,
     debit_amount |-> debit_amount, credit_amount |-> credit_amount,
     exchange_rate |-> exchange_rate]

\* An entry number is the string "J" followed by decimal digits.  The model keeps
\* the digits: entry_number is the sequence of the digits after the "J".

\* the decimal digits of n >= 0
RECURSIVE Digits(_)
Digits(n) == IF n < 10 THEN <<n>> ELSE Append(Digits(n \div 10), n % 10)

\* digits filled with zeros on the left up to a width; never cut
RECURSIVE ZeroPad(_, _)
ZeroPad(d, width) == IF Len(d) >= width THEN d ELSE ZeroPad(<<0>> \o d, width)

LastDigits(n) == ZeroPad(Digits(n % 10 ^ NumberWidth), NumberWidth)

\* format!("J{:06}", n), without the "J"
FormatEntryNumber(n) == ZeroPad(Digits(n), NumberWidth)

\* CAST(SUBSTR(entry_number, 2) AS INTEGER)
RECURSIVE ParseInteger(_)
ParseInteger(d) ==
    IF d = <<>> THEN 0
    ELSE ParseInteger(SubSeq(d, 1, Len(d) - 1)) * 10 + d[Len(d)]

\* COALESCE(MAX(CAST(SUBSTR(entry_number, 2) AS INTEGER)), 0) + 1
NextEntryNumber(entries) ==
    IF entries = {} THEN 1
    ELSE LET suffixes == {ParseInteger(e.entry_number) : e \in entries}
         IN (CHOOSE n \in suffixes : \A k \in suffixes : k <= n) + 1

\* rows of journal_entry_lines a posting inserts
LineRows(entry_id, first_id, lines) ==
    {[id |-> first_id + i - 1, journal_entry_id |-> entry_id,
      account_id |-> lines[i].account_id, currency_id |-> lines[i].currency_id,
      debit_amount |-> lines[i].debit_amount,
      credit_amount |-> lines[i].credit_amount,
      base_amount |-> IF lines[i].debit_amount > 0
                      THEN lines[i].debit_amount * lines[i].exchange_rate
                      ELSE lines[i].credit_amount * lines[i].exchange_rate]
     : i \in 1..Len(lines)}

\* create_journal_entry_internal on a database db (a record of the tables it
\* touches); the result is the database after the posting
create_journal_entry_internal(db, reference_type, reference_id, lines) ==
    LET entry_id == db.next_id.journal_entries
        entry == [id |-> entry_id,
                  entry_number |-> FormatEntryNumber(
                                      NextEntryNumber(db.journal_entries)),
                  reference_type |-> reference_type,
                  reference_id |-> reference_id]
    IN [journal_entries |-> db.journal_entries \cup {entry},
        journal_entry_lines |-> db.journal_entry_lines \cup
            LineRows(entry_id, db.next_id.journal_entry_lines, lines),
        account_currency_balances |-> ApplyLines(db.account_currency_balances, lines),
        next_id |-> [db.next_id EXCEPT
                        !.journal_entries = @ + 1,
                        !.journal_entry_lines = @ + Len(lines)]]

\* the tables a posting touches, as they are now
JournalDb ==
    [journal_entries |-> journal_entries,
     journal_entry_lines |-> journal_entry_lines,
     account_currency_balances |-> account_currency_balances,
     next_id |-> next_id]

\* SELECT id FROM accounts WHERE <kind> LIMIT 1; NULL when there is none
AccountOfKind(kind) ==
    IF \E a \in DOMAIN accounts : accounts[a].kind = kind
    THEN CHOOSE a \in DOMAIN accounts : accounts[a].kind = kind
    ELSE NULL

\* SELECT id FROM currencies WHERE base = 1 LIMIT 1, else the first currency, else 1
base_currency_id ==
    IF \E c \in DOMAIN currencies : currencies[c].base
    THEN CHOOSE c \in DOMAIN currencies : currencies[c].base
    ELSE IF DOMAIN currencies # {}
         THEN CHOOSE c \in DOMAIN currencies : \A d \in DOMAIN currencies : c <= d
    ELSE 1

----------------------------------------------------------------------------
(* Sales: the commands of the stock ledger.  A command holds the lock on   *)
(* the managed database state from its first statement to its return, so   *)
(* each command is one step.  There is no transaction: every statement     *)
(* executed before an early return stays executed.                         *)

Ok(op) == [op |-> op, err |-> ""]

Err(op, err) == [op |-> op, err |-> err]

InsufficientStock == "Insufficient batch stock"

SaleIds == {s.id : s \in sales}

SaleItemIds == {r.id : r \in sale_items}

\* the stock validation loop of create_sale; TRUE when no line is rejected
RECURSIVE ValidateLines(_, _)
ValidateLines(items, batch_used_base) ==
    IF items = <<>> THEN TRUE
    ELSE LET pid == Head(items).purchase_item_id IN
         IF pid = NULL THEN ValidateLines(Tail(items), batch_used_base)
         ELSE LET remaining_base == get_batch_remaining_base(pid)
                  used_so_far == batch_used_base[pid]
                  this_base == amount_to_base(Head(items).amount, Head(items).unit_id)
              IN IF used_so_far + this_base > remaining_base THEN FALSE
                 ELSE ValidateLines(Tail(items),
                          [batch_used_base EXCEPT ![pid] = used_so_far + this_base])

\* rows of sale_items inserted for the lines of a sale
ItemRows(sale_id, first_id, items) ==
    {[id |-> first_id + i - 1, sale_id |-> sale_id,
      unit_id |-> items[i].unit_id, amount |-> items[i].amount,
      total |-> LineTotal(items[i].per_price, items[i].amount, items[i].discount),
      purchase_item_id |-> items[i].purchase_item_id]
     : i \in 1..Len(items)}

\* subtotal, order discount and total of a sale, as create_sale and update_sale compute them
SaleTotals(items, order_discount, additional_costs) ==
    LET items_line_totals ==
            [i \in 1..Len(items) |->
                LineTotal(items[i].per_price, items[i].amount, items[i].discount)]
        subtotal == round2(SumSeq(items_line_totals))
        order_discount_amount ==
            compute_discount_amount(subtotal, order_discount[1], order_discount[2])
        additional_costs_total == SumSeq(additional_costs)
    IN [order_discount_amount |-> order_discount_amount,
        additional_cost |-> additional_costs_total,
        total_amount |-> round2(subtotal - order_discount_amount + additional_costs_total)]

\* create_sale up to the stock validation: the sales row, the journal posting
\* and the initial payment; the result is the tables it has written
CreateSaleHeader(currency_id, exchange_rate, paid_amount, additional_costs, items, order_discount) ==
    LET t == SaleTotals(items, order_discount, additional_costs)
        base_amount == t.total_amount * exchange_rate
        sale_id == next_id.sales
        sale == [id |-> sale_id, currency_id |-> currency_id,
                 total_amount |-> t.total_amount,
                 paid_amount |-> paid_amount,
                 additional_cost |-> t.additional_cost,
                 order_discount_type |-> order_discount[1],
                 order_discount_value |-> order_discount[2],
                 order_discount_amount |-> t.order_discount_amount]
        ar_account == AccountOfKind("receivable")
        revenue_account == AccountOfKind("revenue")
        sale_currency_id ==
            IF currency_id # NULL THEN currency_id ELSE base_currency_id
        posted ==
            IF ar_account # NULL /\ revenue_account # NULL
            THEN create_journal_entry_internal(JournalDb, "sale", sale_id,
                    <<JournalLine(ar_account, sale_currency_id,
                                  base_amount, 0, exchange_rate),
                      JournalLine(revenue_account, sale_currency_id,
                                  0, base_amount, exchange_rate)>>)
            ELSE JournalDb
        payment == [id |-> next_id.sale_payments, sale_id |-> sale_id,
                    account_id |-> NULL, currency_id |-> sale_currency_id,
                    amount |-> paid_amount,
                    base_amount |-> paid_amount * exchange_rate]
    IN [sale_id |-> sale_id,
        sales |-> sales \cup {sale},
        journal_entries |-> posted.journal_entries,
        journal_entry_lines |-> posted.journal_entry_lines,
        account_currency_balances |-> posted.account_currency_balances,
        sale_payments |-> IF paid_amount > 0
                          THEN sale_payments \cup {payment}
                          ELSE sale_payments,
        next_id |-> [posted.next_id EXCEPT
                        !.sales = @ + 1,
                        !.sale_payments = IF paid_amount > 0 THEN @ + 1 ELSE @]]

create_sale(currency_id, exchange_rate, paid_amount, additional_costs, items, order_discount) ==
    /\ next_id.sales <= MaxSales
    /\ next_id.sale_items + Len(items) - 1 <= MaxSaleItems
    /\ IF items = <<>>
       THEN /\ result' = Err("create_sale", "Sale must have at least one item")
            /\ UNCHANGED tables
       ELSE LET h == CreateSaleHeader(currency_id, exchange_rate, paid_amount,
                                      additional_costs, items, order_discount)
                valid == ValidateLines(items, [b \in DOMAIN purchase_items |-> 0])
            IN /\ sales' = h.sales
               /\ journal_entries' = h.journal_entries
               /\ journal_entry_lines' = h.journal_entry_lines
               /\ account_currency_balances' = h.account_currency_balances
               /\ sale_payments' = h.sale_payments
               /\ sale_items' = IF valid
                                THEN sale_items \cup
                                     ItemRows(h.sale_id, next_id.sale_items, items)
                                ELSE sale_items
               /\ next_id' = [h.next_id EXCEPT
                                 !.sale_items = IF valid THEN @ + Len(items) ELSE @]
               /\ result' = IF valid
                            THEN Ok("create_sale")
                            ELSE Err("create_sale", InsufficientStock)
               /\ UNCHANGED <<catalog, purchase_payments, expenses, accounts,
                              account_transactions>>

update_sale(id, currency_id, exchange_rate, additional_costs, items, order_discount) ==
    /\ id \in SaleIds
    /\ next_id.sale_items + Len(items) - 1 <= MaxSaleItems
    /\ IF items = <<>>
       THEN /\ result' = Err("update_sale", "Sale must have at least one item")
            /\ UNCHANGED tables
       ELSE LET t == SaleTotals(items, order_discount, additional_costs)
                old == CHOOSE s \in sales : s.id = id
                new == [old EXCEPT !.currency_id = currency_id,
                                   !.total_amount = t.total_amount,
                                   !.additional_cost = t.additional_cost,
                                   !.order_discount_type = order_discount[1],
                                   !.order_discount_value = order_discount[2],
                                   !.order_discount_amount = t.order_discount_amount]
            IN /\ sales' = (sales \ {old}) \cup {new}
               /\ sale_items' = {r \in sale_items : r.sale_id # id} \cup
                                ItemRows(id, next_id.sale_items, items)
               /\ next_id' = [next_id EXCEPT !.sale_items = @ + Len(items)]
               /\ result' = Ok("update_sale")
               /\ UNCHANGED <<catalog, purchase_payments, expenses, sale_payments,
                              accounts, account_transactions,
                              account_currency_balances, journal_entries,
                              journal_entry_lines>>

\* DELETE FROM sales WHERE id = ?; the rows of the sale go with it (ON DELETE CASCADE)
delete_sale(id) ==
    /\ sales' = {s \in sales : s.id # id}
    /\ sale_items' = {r \in sale_items : r.sale_id # id}
    /\ sale_payments' = {p \in sale_payments : p.sale_id # id}
    /\ result' = Ok("delete_sale")
    /\ UNCHANGED <<catalog, purchase_payments, expenses, accounts, account_transactions,
                   account_currency_balances, journal_entries, journal_entry_lines,
                   next_id>>

\* UPDATE sales SET total_amount = SUM(sale_items.total) + SUM(sale_service_items.total)
\*   - order_discount_amount + additional_cost WHERE id = ?
\* (no service line is ever given to the commands of this model: that sum is 0)
UpdateSaleTotal(sales_rows, items, sale_id) ==
    {IF s.id = sale_id
     THEN [s EXCEPT !.total_amount =
              SumField({r \in items : r.sale_id = sale_id}, "total")
              - s.order_discount_amount + s.additional_cost]
     ELSE s : s \in sales_rows}

create_sale_item(sale_id, item) ==
    /\ sale_id \in SaleIds
    /\ next_id.sale_items <= MaxSaleItems
    /\ LET pid == item.purchase_item_id
           sale_amount_base == amount_to_base(item.amount, item.unit_id)
       IN IF pid # NULL /\ sale_amount_base > get_batch_remaining_base(pid)
          THEN /\ result' = Err("create_sale_item", InsufficientStock)
               /\ UNCHANGED tables
          ELSE LET rows == sale_items \cup ItemRows(sale_id, next_id.sale_items, <<item>>)
               IN /\ sale_items' = rows
                  /\ sales' = UpdateSaleTotal(sales, rows, sale_id)
                  /\ next_id' = [next_id EXCEPT !.sale_items = @ + 1]
                  /\ result' = Ok("create_sale_item")
                  /\ UNCHANGED <<catalog, purchase_payments, expenses, sale_payments,
                                 accounts, account_transactions,
                                 account_currency_balances, journal_entries,
                                 journal_entry_lines>>

update_sale_item(id, item) ==
    LET pid == item.purchase_item_id
        current_row == {r \in sale_items : r.id = id}
        add_back ==
            IF current_row = {} THEN 0
            ELSE LET cur == CHOOSE r \in current_row : TRUE
                 IN IF cur.purchase_item_id = pid
                    THEN amount_to_base(cur.amount, cur.unit_id) ELSE 0
        sale_amount_base == amount_to_base(item.amount, item.unit_id)
    IN IF pid # NULL /\ sale_amount_base > get_batch_remaining_base(pid) + add_back
       THEN /\ result' = Err("update_sale_item", InsufficientStock)
            /\ UNCHANGED tables
       ELSE IF current_row = {}
       THEN /\ result' = Err("update_sale_item", "Failed to retrieve updated sale item")
            /\ UNCHANGED tables
       ELSE LET cur == CHOOSE r \in current_row : TRUE
                new == [cur EXCEPT
                           !.unit_id = item.unit_id, !.amount = item.amount,
                           !.total = LineTotal(item.per_price, item.amount, item.discount),
                           !.purchase_item_id = pid]
                rows == (sale_items \ {cur}) \cup {new}
            IN /\ sale_items' = rows
               /\ sales' = UpdateSaleTotal(sales, rows, cur.sale_id)
               /\ result' = Ok("update_sale_item")
               /\ UNCHANGED <<catalog, purchase_payments, expenses, sale_payments,
                              accounts, account_transactions,
                              account_currency_balances, journal_entries,
                              journal_entry_lines, next_id>>

delete_sale_item(id) ==
    LET current_row == {r \in sale_items : r.id = id}
    IN IF current_row = {}
       THEN /\ result' = Err("delete_sale_item", "Sale item not found")
            /\ UNCHANGED tables
       ELSE LET cur == CHOOSE r \in current_row : TRUE
                rows == sale_items \ {cur}
            IN /\ sale_items' = rows
               /\ sales' = UpdateSaleTotal(sales, rows, cur.sale_id)
               /\ result' = Ok("delete_sale_item")
               /\ UNCHANGED <<catalog, purchase_payments, expenses, sale_payments,
                              accounts, account_transactions,
                              account_currency_balances, journal_entries,
                              journal_entry_lines, next_id>>

----------------------------------------------------------------------------
(* Initial database *)

\* accounts.kind stands for what the lookups of counter-accounts test:
\*   "cash"       account_type = 'Asset' AND name LIKE '%Cash%' / '%Bank%'
\*   "receivable" account_type = 'Asset' AND name LIKE '%Receivable%'
\*   "revenue"    account_type = 'Revenue'
\*   "expense"    account_type = 'Expense'
\*   "other"      none of them
AccountRow(kind, initial_balance) ==
    [kind |-> kind, initial_balance |-> initial_balance,
     current_balance |-> initial_balance]

ChartOfAccounts ==
    (1 :> AccountRow("other", 0)) @@ (2 :> AccountRow("cash", 0)) @@
    (3 :> AccountRow("receivable", 0)) @@ (4 :> AccountRow("revenue", 0)) @@
    (5 :> AccountRow("expense", 0))

InitCatalog ==
    /\ currencies = (1 :> [name |-> "AFN", base |-> TRUE]) @@
                    (2 :> [name |-> "USD", base |-> FALSE])
    /\ units = (1 :> [ratio |-> 1]) @@ (2 :> [ratio |-> 2])
    /\ purchase_items =
          (1 :> [purchase_id |-> 1, amount |-> 3 * QStep, unit_id |-> 1,
                 per_price |-> 1]) @@
          (2 :> [purchase_id |-> 1, amount |-> QStep, unit_id |-> 2,
                 per_price |-> 1])
    /\ sale_discount_codes = {}

InitEmpty ==
    /\ sales = {}
    /\ sale_items = {}
    /\ sale_payments = {}
    /\ account_transactions = {}
    /\ journal_entries = {}
    /\ journal_entry_lines = {}
    /\ purchase_payments = {}
    /\ expenses = {}
    /\ next_id = [sales |-> 1, sale_items |-> 1, sale_payments |-> 1,
                  account_transactions |-> 1, journal_entries |-> 1,
                  journal_entry_lines |-> 1, purchase_payments |-> 1,
                  expenses |-> 1, purchase_items |-> 3,
                  currencies |-> 3]
    /\ result = Ok("init")

\* no command in progress
NoThreads ==
    /\ db_state = <<>>
    /\ conn = OpenConnection
    /\ pc = <<>>
    /\ call = <<>>

\* a database with the catalog and no account yet
Init ==
    /\ InitCatalog
    /\ InitEmpty
    /\ NoThreads
    /\ accounts = <<>>
    /\ account_currency_balances = <<>>

----------------------------------------------------------------------------
(* The stock ledger: any sequence of the sale commands *)

\* create_sale, unpaid and in the base currency
CreateSale ==
    \E additional_costs \in AdditionalCostLists,
       items \in ItemLists, order_discount \in OrderDiscounts :
        /\ create_sale(NULL, 1, 0, additional_costs, items, order_discount)
        /\ UNCHANGED threads

UpdateSale ==
    \E id \in 1..MaxSales, currency_id \in {NULL}, exchange_rate \in {1},
       additional_costs \in AdditionalCostLists,
       items \in ItemLists, order_discount \in OrderDiscounts :
        /\ update_sale(id, currency_id, exchange_rate, additional_costs,
                       items, order_discount)
        /\ UNCHANGED threads

DeleteSale == \E id \in 1..MaxSales : delete_sale(id) /\ UNCHANGED threads

CreateSaleItem ==
    \E sale_id \in 1..MaxSales, item \in ItemInputs :
        create_sale_item(sale_id, item) /\ UNCHANGED threads

UpdateSaleItem ==
    \E id \in 1..MaxSaleItems, item \in ItemInputs :
        update_sale_item(id, item) /\ UNCHANGED threads

DeleteSaleItem == \E id \in 1..MaxSaleItems : delete_sale_item(id) /\ UNCHANGED threads

Next ==
    \/ CreateSale
    \/ UpdateSale
    \/ DeleteSale
    \/ CreateSaleItem
    \/ UpdateSaleItem
    \/ DeleteSaleItem

Spec == Init /\ [][Next]_vars

----------------------------------------------------------------------------
(* Claims about the stock ledger *)

PurchasedBase(b) == amount_to_base(purchase_items[b].amount, purchase_items[b].unit_id)

ConsumedBase(b) == SumBase(Consumptions(sale_items, b))

\* C1: for every batch, the base quantity of the sale items that reference it
\* never exceeds the base quantity purchased
C1_NoOverselling ==
    \A b \in DOMAIN purchase_items : ConsumedBase(b) <= PurchasedBase(b)

\* C2: for every batch, get_batch_remaining_base is >= 0 and equals the purchased
\* base quantity minus the base quantity of the sale items that reference it
C2_Conservation ==
    \A b \in DOMAIN purchase_items :
        /\ get_batch_remaining_base(b) >= 0
        /\ get_batch_remaining_base(b) = PurchasedBase(b) - ConsumedBase(b)

\* remaining base quantity of a batch in the state without the sale item id
RemainingExcluding(b, id) ==
    BatchRemainingBase({r \in sale_items : r.id # id}, b)

Rejected(op) == result' = Err(op, InsufficientStock)

\* C3: a create_sale_item, or an update_sale_item, whose base amount exceeds what
\* remains of the referenced batch (for an update: in the state without the row
\* being updated) is rejected with the insufficient-stock error, and a rejected
\* call changes no sale item, no sale total and no remaining quantity
C3_OversizedIsRejected ==
    [][/\ \A sale_id \in 1..MaxSales, item \in ItemInputs :
            (/\ item.purchase_item_id # NULL
             /\ amount_to_base(item.amount, item.unit_id)
                    > get_batch_remaining_base(item.purchase_item_id)
             /\ create_sale_item(sale_id, item))
            => Rejected("create_sale_item")
       /\ \A id \in 1..MaxSaleItems, item \in ItemInputs :
            (/\ item.purchase_item_id # NULL
             /\ amount_to_base(item.amount, item.unit_id)
                    > RemainingExcluding(item.purchase_item_id, id)
             /\ update_sale_item(id, item))
            => Rejected("update_sale_item")
       /\ (Rejected("create_sale_item") \/ Rejected("update_sale_item"))
            => UNCHANGED <<sale_items, sales>>
      ]_vars

----------------------------------------------------------------------------
(* Sales with their accounting: a database whose chart of accounts has the  *)
(* counter-accounts the sale posting looks up                               *)

InitSale ==
    /\ InitCatalog
    /\ InitEmpty
    /\ NoThreads
    /\ accounts = ChartOfAccounts
    /\ account_currency_balances = <<>>

CreateSalePaid ==
    \E currency_id \in SaleCurrencies, exchange_rate \in Rates,
       paid_amount \in PaidAmounts, additional_costs \in AdditionalCostLists,
       items \in ItemLists, order_discount \in OrderDiscounts :
        /\ create_sale(currency_id, exchange_rate, paid_amount, additional_costs,
                       items, order_discount)
        /\ UNCHANGED threads

NextSale ==
    \/ CreateSalePaid
    \/ DeleteSale

SpecSale == InitSale /\ [][NextSale]_vars

\* C4: a create_sale that returns an error persists nothing: no sales row, no
\* journal entry or line, no balance change, no payment and no sale item
C4_CreateSaleFailsAtomically ==
    [][(result'.op = "create_sale" /\ result'.err # "")
        => UNCHANGED <<sales, sale_items, sale_payments, journal_entries,
                       journal_entry_lines, account_currency_balances>>]_vars

----------------------------------------------------------------------------
(* Commands in progress.  Above, a command is one step, because it holds    *)
(* the lock on the managed database state from db_state.lock() to its       *)
(* return.  Here a command is the sequence of its statements and the lock   *)
(* is what it is in the code: the Mutex of the process the command runs in. *)

Threads == {1, 2}

LockIgnored(p) == TRUE

\* db_state.lock() returns when no other command of process p holds the Mutex
LockFree(p) == db_state[p] = NULL

\* the statement a command starts with once it holds the lock
FirstStep(op) ==
    IF op = "create_sale" THEN "header"
    ELSE IF op = "create_sale_item" THEN "validate"
    ELSE "begin"

\* let db_guard = db_state.lock()
Acquire(t) ==
    /\ pc[t] = "lock"
    /\ LockFree(call[t].process)
    /\ db_state' = [db_state EXCEPT ![call[t].process] = t]
    /\ UNCHANGED conn
    /\ pc' = [pc EXCEPT ![t] = FirstStep(call[t].op)]
    /\ UNCHANGED <<tables, result, call>>

\* the command returns and db_guard is dropped
Return(t) ==
    /\ pc[t] = "return"
    /\ db_state' = [db_state EXCEPT ![call[t].process] = NULL]
    /\ UNCHANGED conn
    /\ pc' = [pc EXCEPT ![t] = "done"]
    /\ result' = IF call[t].err = "" THEN Ok(call[t].op)
                 ELSE Err(call[t].op, call[t].err)
    /\ UNCHANGED <<tables, call>>

Fail(t, err) ==
    /\ call' = [call EXCEPT ![t].err = err]
    /\ pc' = [pc EXCEPT ![t] = "return"]

----------------------------------------------------------------------------
(* create_sale_item and create_sale, statement by statement *)

\* the batches the lines of a call reference
BatchesOf(items) == {items[i].purchase_item_id : i \in 1..Len(items)} \ {NULL}

\* create_sale: the statements before the stock validation
SaleHeader(t) ==
    /\ pc[t] = "header"
    /\ IF call[t].items = <<>>
       THEN /\ Fail(t, "Sale must have at least one item")
            /\ UNCHANGED tables
       ELSE LET h == CreateSaleHeader(NULL, 1, 0, <<>>, call[t].items, <<"none", 0>>)
            IN /\ sales' = h.sales
               /\ journal_entries' = h.journal_entries
               /\ journal_entry_lines' = h.journal_entry_lines
               /\ account_currency_balances' = h.account_currency_balances
               /\ sale_payments' = h.sale_payments
               /\ next_id' = h.next_id
               /\ call' = [call EXCEPT ![t].sale_id = h.sale_id]
               /\ pc' = [pc EXCEPT ![t] = "validate"]
               /\ UNCHANGED <<catalog, sale_items, accounts, account_transactions,
                              purchase_payments, expenses>>
    /\ UNCHANGED <<result, db_state, conn>>

\* the stock validation: get_batch_remaining_base is read, the lines compared
SaleValidate(t) ==
    /\ pc[t] = "validate"
    /\ LET items == call[t].items
           remaining == [b \in BatchesOf(items) |-> get_batch_remaining_base(b)]
           valid ==
               IF call[t].op = "create_sale_item"
               THEN LET pid == items[1].purchase_item_id
                    IN ~(/\ pid # NULL
                         /\ amount_to_base(items[1].amount, items[1].unit_id)
                                > get_batch_remaining_base(pid))
               ELSE ValidateLines(items, [b \in DOMAIN purchase_items |-> 0])
       IN /\ call' = [call EXCEPT ![t].remaining_base = remaining,
                                  ![t].err = IF valid THEN "" ELSE InsufficientStock]
          /\ pc' = [pc EXCEPT ![t] = IF valid THEN "insert" ELSE "return"]
    /\ UNCHANGED <<tables, result, db_state, conn>>

\* the inserts of the validated lines (and, for create_sale_item, the sale total)
SaleInsert(t) ==
    /\ pc[t] = "insert"
    /\ LET rows == sale_items \cup
                   ItemRows(call[t].sale_id, next_id.sale_items, call[t].items)
       IN /\ sale_items' = rows
          /\ sales' = IF call[t].op = "create_sale_item"
                      THEN UpdateSaleTotal(sales, rows, call[t].sale_id)
                      ELSE sales
          /\ next_id' = [next_id EXCEPT !.sale_items = @ + Len(call[t].items)]
    /\ pc' = [pc EXCEPT ![t] = "return"]
    /\ UNCHANGED <<catalog, sale_payments, accounts, account_transactions,
                   account_currency_balances, journal_entries, journal_entry_lines,
                   purchase_payments, expenses, result, db_state, conn, call>>

\* the commands two threads of one process are given
SaleCalls ==
    {[process |-> 1, op |-> "create_sale_item", sale_id |-> 1, items |-> <<item>>,
      remaining_base |-> <<>>, err |-> ""] : item \in ItemInputs}
    \cup
    {[process |-> 1, op |-> "create_sale", sale_id |-> NULL, items |-> items,
      remaining_base |-> <<>>, err |-> ""] : items \in ItemLists}

\* the sale item the database starts with: a third of batch 1 is sold
SoldBefore ==
    {[id |-> 1, sale_id |-> 1, unit_id |-> 1, amount |-> QStep,
      total |-> LineTotal(1, QStep, <<"none", 0>>), purchase_item_id |-> 1]}

\* a database after create_sale of one line, with two commands issued
InitConc ==
    /\ InitCatalog
    /\ accounts = <<>>
    /\ sales = {[id |-> 1, currency_id |-> NULL,
                 total_amount |-> LineTotal(1, QStep, <<"none", 0>>),
                 paid_amount |-> 0, additional_cost |-> 0,
                 order_discount_type |-> "none", order_discount_value |-> 0,
                 order_discount_amount |-> 0]}
    /\ sale_items = SoldBefore
    /\ sale_payments = {}
    /\ account_transactions = {}
    /\ account_currency_balances = <<>>
    /\ journal_entries = {}
    /\ journal_entry_lines = {}
    /\ purchase_payments = {}
    /\ expenses = {}
    /\ next_id = [sales |-> 2, sale_items |-> 2, sale_payments |-> 1,
                  account_transactions |-> 1, journal_entries |-> 1,
                  journal_entry_lines |-> 1, purchase_payments |-> 1,
                  expenses |-> 1, purchase_items |-> 3,
                  currencies |-> 3]
    /\ result = Ok("init")
    /\ db_state = (1 :> NULL)
    /\ conn = OpenConnection
    /\ pc = [t \in Threads |-> "lock"]
    /\ call \in [Threads -> SaleCalls]

NextConc ==
    \/ \E t \in Threads : Acquire(t)
    \/ \E t \in Threads : SaleHeader(t)
    \/ \E t \in Threads : SaleValidate(t)
    \/ \E t \in Threads : SaleInsert(t)
    \/ \E t \in Threads : Return(t)

SpecConc == InitConc /\ [][NextConc]_vars

\* base quantity the lines of a call take from batch b
CallBase(c, b) ==
    SumSeq([i \in 1..Len(c.items) |->
               IF c.items[i].purchase_item_id = b
               THEN amount_to_base(c.items[i].amount, c.items[i].unit_id)
               ELSE 0])

\* what remains of batch b when the two commands are issued
InitialRemaining(b) == BatchRemainingBase(SoldBefore, b)

\* C5: for two create_sale_item / create_sale commands issued concurrently through
\* the same managed database state, nothing changes what remains of a batch between
\* a command's validation and its insert, and the two commands do not both succeed
\* when together they take more from a batch than remained of it
C5_ValidationAndInsertAtomic ==
    /\ \A t \in Threads :
          pc[t] = "insert" =>
              \A b \in DOMAIN call[t].remaining_base :
                  call[t].remaining_base[b] = get_batch_remaining_base(b)
    /\ (\A t \in Threads : pc[t] = "done" /\ call[t].err = "") =>
          \A b \in DOMAIN purchase_items :
              CallBase(call[1], b) + CallBase(call[2], b) <= InitialRemaining(b)

\* two commands on one batch, each within what remained, together beyond it:
\* one succeeded and the other was rejected
C5_Witness ==
    \E t, u \in Threads, b \in DOMAIN purchase_items :
        /\ t # u
        /\ pc[t] = "done" /\ call[t].err = ""
        /\ pc[u] = "done" /\ call[u].err = InsufficientStock
        /\ CallBase(call[t], b) <= InitialRemaining(b)
        /\ CallBase(call[u], b) <= InitialRemaining(b)
        /\ CallBase(call[t], b) + CallBase(call[u], b) > InitialRemaining(b)

----------------------------------------------------------------------------
(* The account ledger *)

MoneyAmounts == {MStep * k : k \in -1..MaxMoney}

PositiveAmounts == {m \in MoneyAmounts : m > 0}

CurrencyNames == {"AFN", "USD", "XXX"}

\* SELECT id FROM currencies WHERE name = ? LIMIT 1; NULL when there is none
CurrencyIdOf(name) ==
    IF \E c \in DOMAIN currencies : currencies[c].name = name
    THEN CHOOSE c \in DOMAIN currencies : currencies[c].name = name
    ELSE NULL

calculate_without_withdrawals(accs, txs, account_id) ==
    (IF account_id \in DOMAIN accs THEN accs[account_id].initial_balance ELSE 0)
    + SumField({x \in txs : x.account_id = account_id
                            /\ x.transaction_type = "deposit"}, "total")

\* initial_balance + SUM(total) of the deposits - SUM(total) of the withdrawals
calculate_account_balance_internal(accs, txs, account_id) ==
    LET initial_balance ==
            IF account_id \in DOMAIN accs THEN accs[account_id].initial_balance ELSE 0
        total_deposits ==
            SumField({x \in txs : x.account_id = account_id
                                  /\ x.transaction_type = "deposit"}, "total")
        total_withdrawals ==
            SumField({x \in txs : x.account_id = account_id
                                  /\ x.transaction_type = "withdraw"}, "total")
    IN initial_balance + total_deposits - total_withdrawals

get_account_balance(account_id) ==
    calculate_account_balance_internal(accounts, account_transactions, account_id)

\* INSERT INTO account_transactions (...)
TxRow(id, account_id, transaction_type, amount, currency, rate, total, is_full) ==
    [id |-> id, account_id |-> account_id, transaction_type |-> transaction_type,
     amount |-> amount, currency |-> currency, rate |-> rate, total |-> total,
     is_full |-> is_full]

\* UPDATE accounts SET current_balance = <recomputed total> WHERE id = ?
SetCurrentBalance(accs, txs, account_id) ==
    IF account_id \in DOMAIN accs
    THEN [accs EXCEPT ![account_id].current_balance =
              calculate_account_balance_internal(accs, txs, account_id)]
    ELSE accs

\* the checks of deposit_account, in their order; "" when the deposit goes on
DepositRejection(current_balance, amount, currency, is_full) ==
    IF is_full /\ current_balance <= 0 THEN "Account has no balance to deposit"
    ELSE IF ~is_full /\ amount <= 0 THEN "Deposit amount must be greater than 0"
    ELSE IF CurrencyIdOf(currency) = NULL THEN "Currency not found"
    ELSE ""

WithdrawRejectionUnchecked(current_balance, amount, currency, rate, is_full) ==
    IF is_full /\ current_balance <= 0 THEN "Account has no balance to withdraw"
    ELSE IF ~is_full /\ amount <= 0 THEN "Withdrawal amount must be greater than 0"
    ELSE IF CurrencyIdOf(currency) = NULL THEN "Currency not found"
    ELSE ""

\* the checks of withdraw_account, in their order; "" when the withdrawal goes on
WithdrawRejection(current_balance, amount, currency, rate, is_full) ==
    IF is_full /\ current_balance <= 0 THEN "Account has no balance to withdraw"
    ELSE IF ~is_full /\ amount <= 0 THEN "Withdrawal amount must be greater than 0"
    ELSE IF ~is_full /\ amount * rate > current_balance
         THEN "Insufficient balance for withdrawal"
    ELSE IF CurrencyIdOf(currency) = NULL THEN "Currency not found"
    ELSE ""

\* the journal posting that ends deposit_account and withdraw_account, on the
\* database db: made when the counter-account exists, its failure ignored
PostTransfer(db, reference_type, debit_account, credit_account, counter_account, currency_id, total, rate) ==
    IF counter_account # NULL
    THEN create_journal_entry_internal(db, reference_type, NULL,
            <<JournalLine(debit_account, currency_id, total, 0, rate),
              JournalLine(credit_account, currency_id, 0, total, rate)>>)
    ELSE db

deposit_account(account_id, amount, currency, rate, is_full) ==
    /\ account_id \in DOMAIN accounts
    /\ next_id.account_transactions <= MaxTx
    /\ LET current_balance == get_account_balance(account_id)
           rejection == DepositRejection(current_balance, amount, currency, is_full)
           final_amount == IF is_full THEN current_balance ELSE amount
           total == final_amount * rate
           currency_id == CurrencyIdOf(currency)
           txs == account_transactions \cup
                  {TxRow(next_id.account_transactions, account_id, "deposit",
                         final_amount, currency, rate, total, is_full)}
           new_currency_balance ==
               get_account_balance_by_currency_internal(account_id, currency_id)
               + final_amount
           cash_account == AccountOfKind("cash")
           db == [JournalDb EXCEPT
                     !.account_currency_balances =
                         update_account_currency_balance_internal(
                             account_currency_balances, account_id, currency_id,
                             new_currency_balance),
                     !.next_id = [next_id EXCEPT !.account_transactions = @ + 1]]
           posted == PostTransfer(db, "account_deposit", account_id, cash_account,
                                  cash_account, currency_id, total, rate)
       IN IF rejection # ""
          THEN /\ result' = Err("deposit_account", rejection)
               /\ UNCHANGED tables
          ELSE /\ account_transactions' = txs
               /\ accounts' = SetCurrentBalance(accounts, txs, account_id)
               /\ account_currency_balances' = posted.account_currency_balances
               /\ journal_entries' = posted.journal_entries
               /\ journal_entry_lines' = posted.journal_entry_lines
               /\ next_id' = posted.next_id
               /\ result' = Ok("deposit_account")
               /\ UNCHANGED <<catalog, sales, sale_items, sale_payments,
                              purchase_payments, expenses>>

withdraw_account(account_id, amount, currency, rate, is_full) ==
    /\ account_id \in DOMAIN accounts
    /\ next_id.account_transactions <= MaxTx
    /\ LET current_balance == get_account_balance(account_id)
           rejection ==
               WithdrawRejection(current_balance, amount, currency, rate, is_full)
           final_amount == IF is_full THEN current_balance ELSE amount
           total == final_amount * rate
           currency_id == CurrencyIdOf(currency)
           txs == account_transactions \cup
                  {TxRow(next_id.account_transactions, account_id, "withdraw",
                         final_amount, currency, rate, total, is_full)}
           new_currency_balance ==
               get_account_balance_by_currency_internal(account_id, currency_id)
               - final_amount
           expense_account == AccountOfKind("expense")
           db == [JournalDb EXCEPT
                     !.account_currency_balances =
                         update_account_currency_balance_internal(
                             account_currency_balances, account_id, currency_id,
                             new_currency_balance),
                     !.next_id = [next_id EXCEPT !.account_transactions = @ + 1]]
           posted == PostTransfer(db, "account_withdraw", expense_account, account_id,
                                  expense_account, currency_id, total, rate)
       IN IF rejection # ""
          THEN /\ result' = Err("withdraw_account", rejection)
               /\ UNCHANGED tables
          ELSE /\ account_transactions' = txs
               /\ accounts' = SetCurrentBalance(accounts, txs, account_id)
               /\ account_currency_balances' = posted.account_currency_balances
               /\ journal_entries' = posted.journal_entries
               /\ journal_entry_lines' = posted.journal_entry_lines
               /\ next_id' = posted.next_id
               /\ result' = Ok("withdraw_account")
               /\ UNCHANGED <<catalog, sales, sale_items, sale_payments,
                              purchase_payments, expenses>>

----------------------------------------------------------------------------
(* deposit_account, withdraw_account and create_journal_entry, statement by *)
(* statement, for callers that each run in a process of their own: each     *)
(* holds the lock of its own process and a connection of its own to the one *)
(* store.                                                                   *)

\* the (account, currency) pair whose balance the call is about to read and write
PairOf(c) ==
    IF c.op = "create_journal_entry"
    THEN <<c.lines[c.i].account_id, c.lines[c.i].currency_id>>
    ELSE <<c.account_id, CurrencyIdOf(c.currency)>>

\* what the call adds to the balance of that pair
Delta(c) ==
    IF c.op = "deposit_account" THEN c.final_amount
    ELSE IF c.op = "withdraw_account" THEN -c.final_amount
    ELSE IF c.lines[c.i].debit_amount > 0 THEN c.lines[c.i].debit_amount
    ELSE -c.lines[c.i].credit_amount

NewBalanceReread(t) ==
    BalanceIn(account_currency_balances, PairOf(call[t])[1], PairOf(call[t])[2])
    + Delta(call[t])

\* let new_balance = current_balance +/- amount, from the balance read before
NewBalance(t) == call[t].current_balance + Delta(call[t])

\* the statements up to the first balance read: the checks and the insert of the
\* transaction, or of the journal entry
LedgerBegin(t) ==
    /\ pc[t] = "begin"
    /\ LET c == call[t] IN
       IF c.op = "create_journal_entry"
       THEN /\ journal_entries' = journal_entries \cup
                   {[id |-> next_id.journal_entries,
                     entry_number |-> FormatEntryNumber(
                                         NextEntryNumber(journal_entries)),
                     reference_type |-> "manual", reference_id |-> NULL]}
            /\ next_id' = [next_id EXCEPT !.journal_entries = @ + 1]
            /\ call' = [call EXCEPT ![t].entry_id = next_id.journal_entries]
            /\ pc' = [pc EXCEPT ![t] = IF c.lines = <<>> THEN "return" ELSE "read"]
            /\ UNCHANGED account_transactions
       ELSE LET current_balance == get_account_balance(c.account_id)
                rejection ==
                    IF c.op = "deposit_account"
                    THEN DepositRejection(current_balance, c.amount, c.currency,
                                          c.is_full)
                    ELSE WithdrawRejection(current_balance, c.amount, c.currency,
                                           c.rate, c.is_full)
                final_amount == IF c.is_full THEN current_balance ELSE c.amount
            IN IF rejection # ""
               THEN /\ Fail(t, rejection)
                    /\ UNCHANGED <<account_transactions, journal_entries, next_id>>
               ELSE /\ account_transactions' = account_transactions \cup
                           {TxRow(next_id.account_transactions, c.account_id,
                                  IF c.op = "deposit_account" THEN "deposit"
                                  ELSE "withdraw",
                                  final_amount, c.currency, c.rate,
                                  final_amount * c.rate, c.is_full)}
                    /\ next_id' = [next_id EXCEPT !.account_transactions = @ + 1]
                    /\ call' = [call EXCEPT ![t].final_amount = final_amount]
                    /\ pc' = [pc EXCEPT ![t] = "read"]
                    /\ UNCHANGED journal_entries
    /\ UNCHANGED <<catalog, sales, sale_items, sale_payments, accounts,
                   account_currency_balances, journal_entry_lines,
                   purchase_payments, expenses, result, db_state, conn>>

\* get_account_balance_by_currency_internal (for a journal line: after its insert)
BalanceRead(t) ==
    /\ pc[t] = "read"
    /\ LET c == call[t] IN
       /\ call' = [call EXCEPT ![t].current_balance =
                       get_account_balance_by_currency_internal(PairOf(c)[1],
                                                                PairOf(c)[2])]
       /\ IF c.op = "create_journal_entry"
          THEN /\ journal_entry_lines' = journal_entry_lines \cup
                      LineRows(c.entry_id, next_id.journal_entry_lines,
                               <<c.lines[c.i]>>)
               /\ next_id' = [next_id EXCEPT !.journal_entry_lines = @ + 1]
          ELSE UNCHANGED <<journal_entry_lines, next_id>>
    /\ pc' = [pc EXCEPT ![t] = "upsert"]
    /\ UNCHANGED <<catalog, sales, sale_items, sale_payments, accounts,
                   account_transactions, account_currency_balances, journal_entries,
                   purchase_payments, expenses, result, db_state, conn>>

\* update_account_currency_balance_internal with the balance computed from the read
BalanceUpsert(t) ==
    /\ pc[t] = "upsert"
    /\ LET c == call[t] IN
       /\ account_currency_balances' =
              update_account_currency_balance_internal(
                  account_currency_balances, PairOf(c)[1], PairOf(c)[2], NewBalance(t))
       /\ IF c.op = "create_journal_entry"
          THEN IF c.i < Len(c.lines)
               THEN /\ call' = [call EXCEPT ![t].i = @ + 1]
                    /\ pc' = [pc EXCEPT ![t] = "read"]
               ELSE /\ pc' = [pc EXCEPT ![t] = "return"]
                    /\ UNCHANGED call
          ELSE /\ pc' = [pc EXCEPT ![t] = "finish"]
               /\ UNCHANGED call
    /\ UNCHANGED <<catalog, sales, sale_items, sale_payments, accounts,
                   account_transactions, journal_entries, journal_entry_lines,
                   purchase_payments, expenses, next_id, result, db_state, conn>>

\* deposit_account / withdraw_account: the update of accounts.current_balance and
\* the journal posting
LedgerFinish(t) ==
    /\ pc[t] = "finish"
    /\ LET c == call[t]
           currency_id == CurrencyIdOf(c.currency)
           total == c.final_amount * c.rate
           cash_account == AccountOfKind("cash")
           expense_account == AccountOfKind("expense")
           posted ==
               IF c.op = "deposit_account"
               THEN PostTransfer(JournalDb, "account_deposit", c.account_id,
                                 cash_account, cash_account, currency_id, total, c.rate)
               ELSE PostTransfer(JournalDb, "account_withdraw", expense_account,
                                 c.account_id, expense_account, currency_id, total,
                                 c.rate)
       IN /\ accounts' = SetCurrentBalance(accounts, account_transactions, c.account_id)
          /\ account_currency_balances' = posted.account_currency_balances
          /\ journal_entries' = posted.journal_entries
          /\ journal_entry_lines' = posted.journal_entry_lines
          /\ next_id' = posted.next_id
    /\ pc' = [pc EXCEPT ![t] = "return"]
    /\ UNCHANGED <<catalog, sales, sale_items, sale_payments, account_transactions,
                   purchase_payments, expenses, result, db_state, conn, call>>

\* the per-currency balances the store starts with: account 1 was created in
\* currency 1 with an initial balance
StartBalances == (<<1, 1>> :> 4 * MStep)

LedgerCall(process, op, amount, currency, lines) ==
    [process |-> process, op |-> op, account_id |-> 1, amount |-> amount,
     currency |-> currency, rate |-> 1, is_full |-> FALSE, lines |-> lines,
     i |-> 1, entry_id |-> NULL, final_amount |-> 0, current_balance |-> 0,
     err |-> ""]

\* journal lines on account 1: a debit or a credit of one step, in either currency
RaceLines ==
    {JournalLine(1, c, MStep, 0, 1) : c \in DOMAIN currencies} \cup
    {JournalLine(1, c, 0, MStep, 1) : c \in DOMAIN currencies}

\* the commands the caller of process p may run
RaceCalls(p) ==
    {LedgerCall(p, op, amount, currency, <<>>) :
        op \in {"deposit_account", "withdraw_account"},
        amount \in PositiveAmounts, currency \in CurrencyNames}
    \cup
    {LedgerCall(p, "create_journal_entry", 0, "", lines) :
        lines \in UNION {[1..n -> RaceLines] : n \in 1..2}}

\* one store, two processes, one caller in each
InitRace ==
    /\ InitCatalog
    /\ InitEmpty
    /\ accounts = (1 :> AccountRow("other", StartBalances[<<1, 1>>]))
    /\ account_currency_balances = StartBalances
    /\ db_state = [p \in Threads |-> NULL]
    /\ conn = OpenConnection
    /\ pc = [t \in Threads |-> "lock"]
    /\ call \in {f \in [Threads -> UNION {RaceCalls(p) : p \in Threads}] :
                    \A t \in Threads : f[t].process = t}

NextRace ==
    \/ \E t \in Threads : Acquire(t)
    \/ \E t \in Threads : LedgerBegin(t)
    \/ \E t \in Threads : BalanceRead(t)
    \/ \E t \in Threads : BalanceUpsert(t)
    \/ \E t \in Threads : LedgerFinish(t)
    \/ \E t \in Threads : Return(t)

SpecRace == InitRace /\ [][NextRace]_vars

\* the command of thread t has returned without an error
Finished(t) == pc[t] = "done" /\ call[t].err = ""

\* the call reads and writes one balance, once
SingleUpdate(c) == c.op # "create_journal_entry" \/ Len(c.lines) = 1

\* two finished callers that each updated the balance of the same pair once
SamePair(t, u) ==
    /\ t # u
    /\ Finished(t) /\ Finished(u)
    /\ SingleUpdate(call[t]) /\ SingleUpdate(call[u])
    /\ PairOf(call[t]) = PairOf(call[u])

\* C6: two callers on separate connections that run deposit_account,
\* withdraw_account or create_journal_entry on the same (account, currency) pair
\* can both read the balance before either writes it; whenever they do, the balance
\* they leave is the starting balance plus the delta of one of them only: the
\* other delta is lost
C6_LostUpdate ==
    \A t, u \in Threads :
        (SamePair(t, u) /\ call[t].current_balance = call[u].current_balance) =>
            LET pair == PairOf(call[t])
                start == BalanceIn(StartBalances, pair[1], pair[2])
            IN BalanceIn(account_currency_balances, pair[1], pair[2])
                   \in {start + Delta(call[t]), start + Delta(call[u])}

\* both callers have finished and the balance of their pair is not the starting
\* balance plus both deltas
C6_Witness ==
    \E t, u \in Threads :
        /\ SamePair(t, u)
        /\ LET pair == PairOf(call[t])
               start == BalanceIn(StartBalances, pair[1], pair[2])
           IN BalanceIn(account_currency_balances, pair[1], pair[2])
                  # start + Delta(call[t]) + Delta(call[u])

----------------------------------------------------------------------------
(* The account ledger: any sequence of deposits and withdrawals on a fresh  *)
(* account                                                                  *)

InitialBalances == {0, 2 * MStep}

\* account 1 was created with initial balance b0 in currency 1; the chart has the
\* counter-accounts the postings look up
InitLedger ==
    /\ InitCatalog
    /\ InitEmpty
    /\ NoThreads
    /\ \E b0 \in InitialBalances :
          /\ accounts = [ChartOfAccounts EXCEPT ![1] = AccountRow("other", b0)]
          /\ account_currency_balances = (<<1, 1>> :> b0)

DepositAccount ==
    \E account_id \in {1, 2}, amount \in MoneyAmounts, currency \in CurrencyNames,
       rate \in Rates, is_full \in BOOLEAN :
        /\ deposit_account(account_id, amount, currency, rate, is_full)
        /\ UNCHANGED threads

WithdrawAccount ==
    \E account_id \in {1, 2}, amount \in MoneyAmounts, currency \in CurrencyNames,
       rate \in Rates, is_full \in BOOLEAN :
        /\ withdraw_account(account_id, amount, currency, rate, is_full)
        /\ UNCHANGED threads

NextLedger ==
    \/ DepositAccount
    \/ WithdrawAccount

SpecLedger == InitLedger /\ [][NextLedger]_vars

\* the transactions of a kind on an account
TxOf(account_id, transaction_type) ==
    {x \in account_transactions :
        x.account_id = account_id /\ x.transaction_type = transaction_type}

\* sum of amount x rate over a set of transactions
RECURSIVE SumAmountTimesRate(_)
SumAmountTimesRate(S) ==
    IF S = {} THEN 0
    ELSE LET x == CHOOSE y \in S : TRUE
         IN x.amount * x.rate + SumAmountTimesRate(S \ {x})

\* C7: after any sequence of deposit_account and withdraw_account calls on a
\* fresh account, get_account_balance is the initial balance plus amount x rate of
\* every deposit made minus amount x rate of every withdrawal made
C7_LedgerBalanceIdentity ==
    \A a \in DOMAIN accounts :
        get_account_balance(a) =
            accounts[a].initial_balance
            + SumAmountTimesRate(TxOf(a, "deposit"))
            - SumAmountTimesRate(TxOf(a, "withdraw"))

\* an account with a positive initial balance, a deposit and a withdrawal at a
\* rate other than 1
C7_Witness ==
    \E a \in DOMAIN accounts :
        /\ accounts[a].initial_balance > 0
        /\ \E x \in TxOf(a, "deposit") : x.rate # 1
        /\ \E x \in TxOf(a, "withdraw") : x.rate # 1

InsufficientBalance == "Insufficient balance for withdrawal"

C10_FullWithdrawLeavesZero ==
    [][\A account_id \in DOMAIN accounts, amount \in MoneyAmounts,
          currency \in CurrencyNames, rate \in Rates :
            (/\ withdraw_account(account_id, amount, currency, rate, TRUE)
             /\ result'.err = "")
            => calculate_account_balance_internal(
                   accounts', account_transactions', account_id) = 0
      ]_vars

----------------------------------------------------------------------------
(* The other commands that write account transactions *)

\* the tables of the account ledger, as they are now
LedgerDb ==
    [accounts |-> accounts,
     account_transactions |-> account_transactions,
     account_currency_balances |-> account_currency_balances,
     next_id |-> next_id]

\* SELECT name FROM currencies WHERE id = ?; "" when there is none
CurrencyNameOf(currency_id) ==
    IF currency_id \in DOMAIN currencies THEN currencies[currency_id].name ELSE ""

InsufficientInAccount == "Insufficient balance in account"

\* "if let Some(aid) = account_id" and "if let Some(currency_id) = currency_ids.first()"
HasAccountAndCurrency(account_id, currency) ==
    account_id # NULL /\ CurrencyIdOf(currency) # NULL

\* the account transaction of a payment or an expense on the database db: the
\* row, the per-currency balance moved by the amount, current_balance recomputed
AccountMovement(db, account_id, transaction_type, amount, currency, rate, total) ==
    LET currency_id == CurrencyIdOf(currency)
        current_balance == BalanceIn(db.account_currency_balances, account_id,
                                     currency_id)
        new_balance == IF transaction_type = "deposit"
                       THEN current_balance + amount
                       ELSE current_balance - amount
        txs == db.account_transactions \cup
               {TxRow(db.next_id.account_transactions, account_id, transaction_type,
                      amount, currency, rate, total, FALSE)}
    IN [accounts |-> SetCurrentBalance(db.accounts, txs, account_id),
        account_transactions |-> txs,
        account_currency_balances |->
            update_account_currency_balance_internal(
                db.account_currency_balances, account_id, currency_id, new_balance),
        next_id |-> [db.next_id EXCEPT !.account_transactions = @ + 1]]

\* rows of payments and expenses inserted so far
RowsInserted ==
    (next_id.sale_payments - 1) + (next_id.purchase_payments - 1)
    + (next_id.expenses - 1)

create_sale_payment(sale_id, account_id, currency_id, exchange_rate, amount) ==
    /\ sale_id \in SaleIds
    /\ RowsInserted < MaxRows
    /\ next_id.account_transactions <= MaxTx
    /\ LET base_amount == amount * exchange_rate
           sale == CHOOSE x \in sales : x.id = sale_id
           payment_currency_id ==
               IF currency_id # NULL THEN currency_id
               ELSE IF sale.currency_id # NULL THEN sale.currency_id
               ELSE base_currency_id
           payment == [id |-> next_id.sale_payments, sale_id |-> sale_id,
                       account_id |-> account_id, currency_id |-> payment_currency_id,
                       amount |-> amount, base_amount |-> base_amount]
           payments == sale_payments \cup {payment}
           currency_name == CurrencyNameOf(payment_currency_id)
           db == [LedgerDb EXCEPT !.next_id.sale_payments = @ + 1]
           moved == IF account_id # NULL /\ currency_name # ""
                    THEN AccountMovement(db, account_id, "deposit", amount,
                                         currency_name, exchange_rate, base_amount)
                    ELSE db
           cash_account == AccountOfKind("cash")
           ar_account == AccountOfKind("receivable")
           jdb == [JournalDb EXCEPT
                      !.account_currency_balances = moved.account_currency_balances,
                      !.next_id = moved.next_id]
           posted ==
               IF cash_account # NULL /\ ar_account # NULL
               THEN create_journal_entry_internal(jdb, "sale_payment", sale_id,
                       <<JournalLine(cash_account, payment_currency_id,
                                     base_amount, 0, exchange_rate),
                         JournalLine(ar_account, payment_currency_id,
                                     0, base_amount, exchange_rate)>>)
               ELSE jdb
       IN /\ sale_payments' = payments
          /\ account_transactions' = moved.account_transactions
          /\ accounts' = moved.accounts
          /\ sales' = {IF x.id = sale_id
                       THEN [x EXCEPT !.paid_amount =
                                SumField({q \in payments : q.sale_id = sale_id},
                                         "base_amount")]
                       ELSE x : x \in sales}
          /\ account_currency_balances' = posted.account_currency_balances
          /\ journal_entries' = posted.journal_entries
          /\ journal_entry_lines' = posted.journal_entry_lines
          /\ next_id' = posted.next_id
          /\ result' = Ok("create_sale_payment")
          /\ UNCHANGED <<catalog, sale_items, purchase_payments, expenses>>

create_purchase_payment(purchase_id, account_id, amount, currency, rate) ==
    /\ RowsInserted < MaxRows
    /\ next_id.account_transactions <= MaxTx
    /\ LET total == amount * rate
           payment == [id |-> next_id.purchase_payments, purchase_id |-> purchase_id,
                       account_id |-> account_id, amount |-> amount,
                       currency |-> currency, rate |-> rate, total |-> total]
           db == [LedgerDb EXCEPT !.next_id.purchase_payments = @ + 1]
           insufficient ==
               /\ HasAccountAndCurrency(account_id, currency)
               /\ BalanceIn(account_currency_balances, account_id,
                            CurrencyIdOf(currency)) < amount
           moved == IF HasAccountAndCurrency(account_id, currency) /\ ~insufficient
                    THEN AccountMovement(db, account_id, "withdraw", amount,
                                         currency, rate, total)
                    ELSE db
       IN /\ purchase_payments' = purchase_payments \cup {payment}
          /\ account_transactions' = moved.account_transactions
          /\ accounts' = moved.accounts
          /\ account_currency_balances' = moved.account_currency_balances
          /\ next_id' = moved.next_id
          /\ result' = IF insufficient
                       THEN Err("create_purchase_payment", InsufficientInAccount)
                       ELSE Ok("create_purchase_payment")
          /\ UNCHANGED <<catalog, sales, sale_items, sale_payments, expenses,
                         journal_entries, journal_entry_lines>>

create_expense(account_id, amount, currency, rate, total) ==
    /\ RowsInserted < MaxRows
    /\ next_id.account_transactions <= MaxTx
    /\ LET insufficient ==
               /\ HasAccountAndCurrency(account_id, currency)
               /\ BalanceIn(account_currency_balances, account_id,
                            CurrencyIdOf(currency)) < amount
           moved == IF HasAccountAndCurrency(account_id, currency)
                    THEN AccountMovement(LedgerDb, account_id, "withdraw", amount,
                                         currency, rate, total)
                    ELSE LedgerDb
           expense == [id |-> next_id.expenses, account_id |-> account_id,
                       amount |-> amount, currency |-> currency, rate |-> rate,
                       total |-> total]
       IN IF insufficient
          THEN /\ result' = Err("create_expense", InsufficientInAccount)
               /\ UNCHANGED tables
          ELSE /\ expenses' = expenses \cup {expense}
               /\ account_transactions' = moved.account_transactions
               /\ accounts' = moved.accounts
               /\ account_currency_balances' = moved.account_currency_balances
               /\ next_id' = [moved.next_id EXCEPT !.expenses = @ + 1]
               /\ result' = Ok("create_expense")
               /\ UNCHANGED <<catalog, sales, sale_items, sale_payments,
                              purchase_payments, journal_entries, journal_entry_lines>>

update_expense(id, account_id, amount, currency, rate, total) ==
    /\ next_id.account_transactions <= MaxTx
    /\ LET old_expenses == {e \in expenses : e.id = id}
           old == CHOOSE e \in old_expenses : TRUE
           restored ==
               IF old_expenses # {} /\ HasAccountAndCurrency(old.account_id, old.currency)
               THEN [LedgerDb EXCEPT
                        !.account_currency_balances =
                            update_account_currency_balance_internal(
                                account_currency_balances, old.account_id,
                                CurrencyIdOf(old.currency),
                                get_account_balance_by_currency_internal(
                                    old.account_id, CurrencyIdOf(old.currency))
                                + old.amount),
                        !.accounts = SetCurrentBalance(accounts, account_transactions,
                                                       old.account_id)]
               ELSE LedgerDb
           insufficient ==
               /\ HasAccountAndCurrency(account_id, currency)
               /\ BalanceIn(restored.account_currency_balances, account_id,
                            CurrencyIdOf(currency)) < amount
           moved == IF HasAccountAndCurrency(account_id, currency) /\ ~insufficient
                    THEN AccountMovement(restored, account_id, "withdraw", amount,
                                         currency, rate, total)
                    ELSE restored
           expense == [id |-> id, account_id |-> account_id, amount |-> amount,
                       currency |-> currency, rate |-> rate, total |-> total]
       IN /\ account_transactions' = moved.account_transactions
          /\ accounts' = moved.accounts
          /\ account_currency_balances' = moved.account_currency_balances
          /\ next_id' = moved.next_id
          /\ expenses' = IF insufficient \/ old_expenses = {} THEN expenses
                         ELSE (expenses \ old_expenses) \cup {expense}
          /\ result' = IF insufficient
                       THEN Err("update_expense", InsufficientInAccount)
                       ELSE IF old_expenses = {}
                       THEN Err("update_expense", "Failed to retrieve updated expense")
                       ELSE Ok("update_expense")
          /\ UNCHANGED <<catalog, sales, sale_items, sale_payments, purchase_payments,
                         journal_entries, journal_entry_lines>>

\* update_journal_entry: the balance changes of the existing lines taken back
RECURSIVE ReverseLines(_, _)
ReverseLines(acb, existing_lines) ==
    IF existing_lines = {} THEN acb
    ELSE LET l == CHOOSE x \in existing_lines : TRUE
             current_balance == BalanceIn(acb, l.account_id, l.currency_id)
             reversed_balance == IF l.debit_amount > 0
                                 THEN current_balance - l.debit_amount
                                 ELSE current_balance + l.credit_amount
         IN ReverseLines(update_account_currency_balance_internal(
                             acb, l.account_id, l.currency_id, reversed_balance),
                         existing_lines \ {l})

\* update_journal_entry: the account transaction inserted for each new line whose
\* currency has a name
RECURSIVE LineTransactions(_, _)
LineTransactions(first_id, lines) ==
    IF lines = <<>> THEN {}
    ELSE LET l == Head(lines)
             currency_name == CurrencyNameOf(l.currency_id)
             amount == IF l.debit_amount > 0 THEN l.debit_amount ELSE l.credit_amount
         IN IF currency_name = "" THEN LineTransactions(first_id, Tail(lines))
            ELSE {TxRow(first_id, l.account_id,
                        IF l.debit_amount > 0 THEN "deposit" ELSE "withdraw",
                        amount, currency_name, l.exchange_rate,
                        amount * l.exchange_rate, FALSE)}
                 \cup LineTransactions(first_id + 1, Tail(lines))

update_journal_entry(entry_id, new_lines) ==
    /\ \E e \in journal_entries : e.id = entry_id
    /\ next_id.account_transactions + Len(new_lines) - 1 <= MaxTx
    /\ LET existing_lines ==
               {l \in journal_entry_lines : l.journal_entry_id = entry_id}
           reversed == ReverseLines(account_currency_balances, existing_lines)
           inserted == LineTransactions(next_id.account_transactions, new_lines)
       IN /\ journal_entry_lines' =
                 (journal_entry_lines \ existing_lines) \cup
                 LineRows(entry_id, next_id.journal_entry_lines, new_lines)
          /\ account_currency_balances' = ApplyLines(reversed, new_lines)
          /\ account_transactions' = account_transactions \cup inserted
          /\ next_id' = [next_id EXCEPT
                            !.journal_entry_lines = @ + Len(new_lines),
                            !.account_transactions = @ + Cardinality(inserted)]
          /\ result' = Ok("update_journal_entry")
          /\ UNCHANGED <<catalog, sales, sale_items, sale_payments, accounts,
                         journal_entries, purchase_payments, expenses>>

update_account(id, kind, initial_balance) ==
    IF id \notin DOMAIN accounts
    THEN /\ result' = Err("update_account", "Account not found")
         /\ UNCHANGED tables
    ELSE /\ accounts' = SetCurrentBalance(
                            [accounts EXCEPT ![id].kind = kind,
                                             ![id].initial_balance = initial_balance],
                            account_transactions, id)
         /\ result' = Ok("update_account")
         /\ UNCHANGED <<catalog, sales, sale_items, sale_payments,
                        account_transactions, account_currency_balances,
                        journal_entries, journal_entry_lines, purchase_payments,
                        expenses, next_id>>

----------------------------------------------------------------------------
(* The commands that write account transactions or edit an account, in any  *)
(* order, on a database with one sale                                       *)

InitAccounts ==
    /\ InitCatalog
    /\ NoThreads
    /\ accounts = [ChartOfAccounts EXCEPT ![1] = AccountRow("other", 2 * MStep)]
    /\ account_currency_balances = (<<1, 1>> :> 2 * MStep)
    /\ sales = {[id |-> 1, currency_id |-> NULL,
                 total_amount |-> LineTotal(1, QStep, <<"none", 0>>),
                 paid_amount |-> 0, additional_cost |-> 0,
                 order_discount_type |-> "none", order_discount_value |-> 0,
                 order_discount_amount |-> 0]}
    /\ sale_items = SoldBefore
    /\ sale_payments = {}
    /\ account_transactions = {}
    /\ journal_entries = {}
    /\ journal_entry_lines = {}
    /\ purchase_payments = {}
    /\ expenses = {}
    /\ next_id = [sales |-> 2, sale_items |-> 2, sale_payments |-> 1,
                  account_transactions |-> 1, journal_entries |-> 1,
                  journal_entry_lines |-> 1, purchase_payments |-> 1,
                  expenses |-> 1, purchase_items |-> 3,
                  currencies |-> 3]
    /\ result = Ok("init")

\* what the commands of this part are given
PayingAccounts == {NULL, 1}
PaymentCurrencies == {"AFN", "XXX"}
PaymentAmounts == {MStep}
EntryLines ==
    {JournalLine(1, 1, MStep, 0, r) : r \in Rates} \cup
    {JournalLine(1, 1, 0, MStep, r) : r \in Rates}
EntryLineLists == UNION {[1..n -> EntryLines] : n \in 0..1}

DepositPayment ==
    \E amount \in PaymentAmounts, currency \in PaymentCurrencies, rate \in Rates :
        /\ deposit_account(1, amount, currency, rate, FALSE)
        /\ UNCHANGED threads

WithdrawPayment ==
    \E amount \in PaymentAmounts, currency \in PaymentCurrencies, rate \in Rates :
        /\ withdraw_account(1, amount, currency, rate, FALSE)
        /\ UNCHANGED threads

CreateSalePayment ==
    \E account_id \in PayingAccounts, currency_id \in SaleCurrencies,
       exchange_rate \in Rates, amount \in PaymentAmounts :
        /\ create_sale_payment(1, account_id, currency_id, exchange_rate, amount)
        /\ UNCHANGED threads

CreatePurchasePayment ==
    \E account_id \in PayingAccounts, amount \in PaymentAmounts,
       currency \in PaymentCurrencies, rate \in Rates :
        /\ create_purchase_payment(1, account_id, amount, currency, rate)
        /\ UNCHANGED threads

CreateExpense ==
    \E account_id \in PayingAccounts, amount \in PaymentAmounts,
       currency \in PaymentCurrencies, rate \in Rates :
        /\ create_expense(account_id, amount, currency, rate, amount * rate)
        /\ UNCHANGED threads

UpdateExpense ==
    \E id \in 1..MaxRows, account_id \in PayingAccounts, amount \in PaymentAmounts,
       currency \in PaymentCurrencies, rate \in Rates :
        /\ update_expense(id, account_id, amount, currency, rate, amount * rate)
        /\ UNCHANGED threads

UpdateJournalEntry ==
    \E entry_id \in 1..MaxTx, new_lines \in EntryLineLists :
        /\ update_journal_entry(entry_id, new_lines)
        /\ UNCHANGED threads

UpdateAccount ==
    \E initial_balance \in InitialBalances :
        /\ update_account(1, accounts[1].kind, initial_balance)
        /\ UNCHANGED threads

NextAccounts ==
    \/ DepositPayment
    \/ WithdrawPayment
    \/ CreateSalePayment
    \/ CreatePurchasePayment
    \/ CreateExpense
    \/ UpdateExpense
    \/ UpdateJournalEntry
    \/ UpdateAccount

SpecAccounts == InitAccounts /\ [][NextAccounts]_vars

\* C8: accounts.current_balance is never stale: it is the initial balance plus the
\* totals of the account's deposits minus the totals of its withdrawals
C8_CurrentBalanceNeverStale ==
    \A a \in DOMAIN accounts : accounts[a].current_balance = get_account_balance(a)

----------------------------------------------------------------------------
(* Claims about the per-currency balances and the journal *)

\* C11: after a successful deposit_account of amount a with is_full = false in
\* currency c, the balance of the account in c is its balance before plus a, with or
\* without a counter-account for the journal posting, and the balances of the
\* account in the other currencies are unchanged
C11_DepositAddsAmount ==
    [][\A account_id \in DOMAIN accounts, amount \in PositiveAmounts,
          currency \in CurrencyNames, rate \in Rates :
            (/\ deposit_account(account_id, amount, currency, rate, FALSE)
             /\ result'.err = "")
            => \A c \in DOMAIN currencies :
                   BalanceIn(account_currency_balances', account_id, c) =
                       BalanceIn(account_currency_balances, account_id, c)
                       + (IF c = CurrencyIdOf(currency) THEN amount ELSE 0)
      ]_vars

\* the command create_journal_entry: the statements of create_journal_entry_internal,
\* written out once more in the command
create_journal_entry(reference_type, reference_id, lines) ==
    /\ next_id.journal_entries <= MaxEntries
    /\ LET posted == create_journal_entry_internal(JournalDb, reference_type,
                                                   reference_id, lines)
       IN /\ journal_entries' = posted.journal_entries
          /\ journal_entry_lines' = posted.journal_entry_lines
          /\ account_currency_balances' = posted.account_currency_balances
          /\ next_id' = posted.next_id
          /\ result' = Ok("create_journal_entry")
          /\ UNCHANGED <<catalog, sales, sale_items, sale_payments, accounts,
                         account_transactions, purchase_payments, expenses>>

\* what create_journal_entry is given: lines on three (account, currency) pairs that
\* carry a debit, a credit, or both
PostedPairs == {<<1, 1>>, <<1, 2>>, <<2, 1>>}
PostedAmounts == {<<MStep, 0>>, <<0, MStep>>, <<2 * MStep, 0>>, <<MStep, MStep>>}
PostedLines ==
    {JournalLine(p[1], p[2], a[1], a[2], 1) : p \in PostedPairs, a \in PostedAmounts}
PostedLineLists == UNION {[1..n -> PostedLines] : n \in 0..MaxLines}

InitJournal ==
    /\ InitCatalog
    /\ InitEmpty
    /\ NoThreads
    /\ accounts = ChartOfAccounts
    /\ account_currency_balances = <<>>

CreateJournalEntry ==
    \E lines \in PostedLineLists :
        /\ create_journal_entry("manual", NULL, lines)
        /\ UNCHANGED threads

NextJournal == CreateJournalEntry

SpecJournal == InitJournal /\ [][NextJournal]_vars

\* sum of the debit amounts minus sum of the credit amounts of the lines on a pair
RECURSIVE NetOnPair(_, _, _)
NetOnPair(lines, account_id, currency_id) ==
    IF lines = <<>> THEN 0
    ELSE (IF Head(lines).account_id = account_id
             /\ Head(lines).currency_id = currency_id
          THEN Head(lines).debit_amount - Head(lines).credit_amount ELSE 0)
         + NetOnPair(Tail(lines), account_id, currency_id)

\* the pairs a balance can be asked for
AllPairs == (DOMAIN accounts) \X (DOMAIN currencies)

\* a line carries a debit or a credit, not both
OneSided(l) == ~(l.debit_amount > 0 /\ l.credit_amount > 0)

\* create_journal_entry with the given lines moves every balance by the net of the
\* lines on its pair
PostsNet(lines) ==
    create_journal_entry("manual", NULL, lines)
    => \A p \in AllPairs :
           BalanceIn(account_currency_balances', p[1], p[2]) =
               BalanceIn(account_currency_balances, p[1], p[2])
               + NetOnPair(lines, p[1], p[2])

----------------------------------------------------------------------------
(* Reconciliation: the journal against the per-currency balances, on a      *)
(* database with an account created with an initial balance, after deposits *)
(* and withdrawals                                                          *)

Abs(x) == IF x >= 0 THEN x ELSE -x

\* reconcile_account_balance over given tables: the per-currency balance against
\* SUM(debit_amount) - SUM(credit_amount) of the journal lines of the pair
reconcile_account_balance(acb, lines, account_id, currency_id) ==
    LET account_balance == BalanceIn(acb, account_id, currency_id)
        of_pair == {l \in lines : l.account_id = account_id
                                  /\ l.currency_id = currency_id}
        journal_debits == SumField(of_pair, "debit_amount")
        journal_credits == SumField(of_pair, "credit_amount")
        journal_balance == journal_debits - journal_credits
        difference == account_balance - journal_balance
    IN [account_balance |-> account_balance,
        journal_balance |-> journal_balance,
        difference |-> difference,
        is_balanced |-> Abs(difference) < MStep]

\* sum of the base amounts of the debit lines, or of the credit lines
RECURSIVE BaseSum(_, _)
BaseSum(lines, side) ==
    IF lines = <<>> THEN 0
    ELSE Head(lines)[side] * Head(lines).exchange_rate + BaseSum(Tail(lines), side)

\* the entries whose lines carry one amount each and whose debits equal their credits
BalancedLineLists ==
    {lines \in PostedLineLists :
        /\ lines # <<>>
        /\ \A i \in 1..Len(lines) : OneSided(lines[i])
        /\ BaseSum(lines, "debit_amount") = BaseSum(lines, "credit_amount")}

CreateBalancedEntry ==
    \E lines \in BalancedLineLists :
        /\ create_journal_entry("manual", NULL, lines)
        /\ UNCHANGED threads

NextReconcile ==
    \/ DepositPayment
    \/ WithdrawPayment
    \/ CreateBalancedEntry

SpecReconcile == InitLedger /\ [][NextReconcile]_vars

\* C13: in any reachable state (an account created with an initial balance, deposits
\* and withdrawals made), after a journal entry whose debits equal its credits is
\* posted, reconcile_account_balance of every (account, currency) pair the entry
\* touches returns is_balanced = true
C13_ReconciliationStability ==
    [][\A lines \in BalancedLineLists :
          create_journal_entry("manual", NULL, lines)
          => \A i \in 1..Len(lines) :
                 reconcile_account_balance(
                     account_currency_balances', journal_entry_lines',
                     lines[i].account_id, lines[i].currency_id).is_balanced
      ]_vars

----------------------------------------------------------------------------
(* Entry numbers: postings of every kind, one after the other, on a journal *)
(* that already holds an entry                                              *)

\* the number of the entry the journal starts with; 0: the journal starts empty
StartNumbers == {0, 9, 10 ^ NumberWidth - 2}

InitNumbers ==
    /\ InitCatalog
    /\ NoThreads
    /\ accounts = [ChartOfAccounts EXCEPT ![1] = AccountRow("other", 2 * MStep)]
    /\ account_currency_balances = (<<1, 1>> :> 2 * MStep)
    /\ sales = {[id |-> 1, currency_id |-> NULL,
                 total_amount |-> LineTotal(1, QStep, <<"none", 0>>),
                 paid_amount |-> 0, additional_cost |-> 0,
                 order_discount_type |-> "none", order_discount_value |-> 0,
                 order_discount_amount |-> 0]}
    /\ sale_items = SoldBefore
    /\ sale_payments = {}
    /\ account_transactions = {}
    /\ journal_entry_lines = {}
    /\ purchase_payments = {}
    /\ expenses = {}
    /\ result = Ok("init")
    /\ \E n \in StartNumbers :
          /\ journal_entries =
                 IF n = 0 THEN {}
                 ELSE {[id |-> 1, entry_number |-> FormatEntryNumber(n),
                        reference_type |-> "manual", reference_id |-> NULL]}
          /\ next_id = [sales |-> 2, sale_items |-> 2, sale_payments |-> 1,
                        account_transactions |-> 1,
                        journal_entries |-> IF n = 0 THEN 1 ELSE 2,
                        journal_entry_lines |-> 1, purchase_payments |-> 1,
                        expenses |-> 1, purchase_items |-> 3,
                  currencies |-> 3]

\* create_sale of one line that references no batch, unpaid and in the base currency
CreateSaleOfOneLine ==
    \E item \in {i \in ItemInputs : i.purchase_item_id = NULL /\ i.unit_id = 1} :
        /\ create_sale(NULL, 1, 0, <<>>, <<item>>, <<"none", 0>>)
        /\ UNCHANGED threads

\* create_journal_entry without lines, or with a transfer between two accounts
CreateTransferEntry ==
    \E lines \in {<<>>, <<JournalLine(1, 1, MStep, 0, 1),
                          JournalLine(2, 1, 0, MStep, 1)>>} :
        /\ create_journal_entry("manual", NULL, lines)
        /\ UNCHANGED threads

NextNumbers ==
    \/ CreateTransferEntry
    \/ DepositPayment
    \/ WithdrawPayment
    \/ CreateSalePayment
    \/ CreateSaleOfOneLine

SpecNumbers == InitNumbers /\ [][NextNumbers]_vars

\* the numeric suffix of the number of an entry
SuffixOf(e) == ParseInteger(e.entry_number)

\* the largest numeric suffix among the entries; 0 when there is none
MaxSuffix(entries) ==
    IF entries = {} THEN 0
    ELSE LET n == {SuffixOf(e) : e \in entries}
         IN CHOOSE x \in n : \A y \in n : y <= x

\* the numbers of the entries are pairwise distinct and increase with the ids
NumbersIncrease ==
    \A e, f \in journal_entries :
        /\ (e.id # f.id => e.entry_number # f.entry_number)
        /\ (e.id < f.id => SuffixOf(e) < SuffixOf(f))

\* a step inserts at most one entry; its number is the largest existing suffix
\* plus one, written with at least NumberWidth digits and no other leading zero
NumberedNext ==
    /\ journal_entries \subseteq journal_entries'
    /\ Cardinality(journal_entries' \ journal_entries) <= 1
    /\ \A e \in journal_entries' \ journal_entries :
          /\ SuffixOf(e) = MaxSuffix(journal_entries) + 1
          /\ Len(e.entry_number) >= NumberWidth
          /\ (Len(e.entry_number) > NumberWidth => e.entry_number[1] # 0)

\* C14: every entry created by create_journal_entry or by the posting of a sale, a
\* sale payment, a deposit or a withdrawal gets the number "J" + (largest existing
\* numeric suffix + 1) padded with zeros to 6 digits, and across any sequence of
\* postings the numbers are pairwise distinct and strictly increasing in creation
\* order
C14_EntryNumbersIncrease ==
    []NumbersIncrease /\ [][NumberedNext]_vars

\* the journal holds entries of four kinds of posting, and the number of one of
\* them has outgrown the padded width
C14_Witness ==
    /\ \A k \in {"manual", "sale", "account_deposit", "sale_payment"} :
          \E e \in journal_entries : e.reference_type = k /\ e.id > 1
    /\ \E e \in journal_entries : Len(e.entry_number) > NumberWidth

----------------------------------------------------------------------------
(* Pricing of a line: the statements of create_sale_item that compute the   *)
(* discount and the line total, for every line it can be given.  Money and  *)
(* the product per_price x amount are counted in steps of half a cent.      *)

\* per_price and amount of a line: subtotals of 0 to 5 steps, and 250.00
PricedAmounts ==
    {<<1, k>> : k \in 0..MaxSubtotal} \cup {<<25000 * MStep, 1>>}

\* percent, fixed, no discount type, an unrecognised one
DiscountTypes == {"percent", "fixed", "none", "other"}

\* a percentage, or an amount in steps (150 * MStep * 200 steps are 300.00)
DiscountValues == {-2, 0, 1, 2, 3, 10, 50, 100, 150, 30000 * MStep}

InitPricing ==
    /\ InitCatalog
    /\ InitEmpty
    /\ accounts = <<>>
    /\ account_currency_balances = <<>>
    /\ db_state = <<>>
    /\ conn = OpenConnection
    /\ pc = <<"price">>
    /\ \E pa \in PricedAmounts, discount_type \in DiscountTypes,
          discount_value \in DiscountValues :
          call = <<[op |-> "create_sale_item", per_price |-> pa[1], amount |-> pa[2],
                    discount_type |-> discount_type,
                    discount_value |-> discount_value,
                    line_subtotal |-> 0, disc |-> 0, total |-> 0]>>

\* let line_subtotal = per_price * amount; let disc = compute_discount_amount(...);
\* let total = round2(line_subtotal - disc)
PriceLine ==
    /\ pc[1] = "price"
    /\ LET c == call[1]
           line_subtotal == c.per_price * c.amount
           disc == compute_discount_amount(line_subtotal, c.discount_type,
                                           c.discount_value)
           total == round2(line_subtotal - disc)
       IN call' = [call EXCEPT ![1].line_subtotal = line_subtotal,
                               ![1].disc = disc, ![1].total = total]
    /\ pc' = [pc EXCEPT ![1] = "priced"]
    /\ UNCHANGED <<tables, result, db_state, conn>>

NextPricing == PriceLine

SpecPricing == InitPricing /\ [][NextPricing]_vars

\* C15: for every subtotal >= 0, every discount type and every discount value, the
\* discount compute_discount_amount returns is at least 0 and at most the subtotal
C15_DiscountBounds ==
    pc[1] = "priced" =>
        (call[1].line_subtotal >= 0 =>
            /\ 0 <= call[1].disc
            /\ call[1].disc <= call[1].line_subtotal)

Clamp(x, lo, hi) == IF x < lo THEN lo ELSE IF x > hi THEN hi ELSE x

\* C16: for a subtotal > 0 a percent discount of value v is
\* round2(subtotal x clamp(v, 0, 100) / 100) and a fixed discount of value v is
\* round2(clamp(v, 0, subtotal)); a fixed discount of at least the line subtotal
\* makes the line total 0; 10 percent on 250.00 is a discount of 25.00 and a line
\* total of 225.00
C16_DiscountValues ==
    (pc[1] = "priced" /\ call[1].line_subtotal > 0) =>
        LET c == call[1] IN
        /\ c.discount_type = "percent" =>
              c.disc = round2_div(c.line_subtotal * Clamp(c.discount_value, 0, 100),
                                  100)
        /\ c.discount_type = "fixed" =>
              c.disc = round2(Clamp(c.discount_value, 0, c.line_subtotal))
        /\ (c.discount_type = "fixed" /\ c.discount_value >= c.line_subtotal) =>
              c.total = 0
        /\ (c.discount_type = "percent" /\ c.discount_value = 10
            /\ c.line_subtotal = 25000 * MStep) =>
              (c.disc = 2500 * MStep /\ c.total = 22500 * MStep)

----------------------------------------------------------------------------
(* The total of a sale under order discounts and additional costs *)

TotalsLineDiscounts == {<<"none", 0>>, <<"fixed", MStep>>}
TotalsOrderDiscounts == {<<"none", 0>>, <<"percent", 50>>, <<"fixed", 2 * MStep>>}
TotalsCostLists == {<<>>, <<MStep>>}

\* lines that reference no batch, priced at two units of money
TotalsItems ==
    [unit_id : {1}, per_price : {2}, amount : Amounts,
     purchase_item_id : {NULL}, discount : TotalsLineDiscounts]

TotalsItemLists == UNION {[1..n -> TotalsItems] : n \in 0..MaxLines}

CreateDiscountedSale ==
    \E additional_costs \in TotalsCostLists,
       items \in TotalsItemLists, order_discount \in TotalsOrderDiscounts :
        /\ create_sale(NULL, 1, 0, additional_costs, items, order_discount)
        /\ UNCHANGED threads

UpdateDiscountedSale ==
    \E id \in 1..MaxSales, additional_costs \in TotalsCostLists,
       items \in TotalsItemLists, order_discount \in TotalsOrderDiscounts :
        /\ update_sale(id, NULL, 1, additional_costs, items, order_discount)
        /\ UNCHANGED threads

AddItemToSale ==
    \E sale_id \in 1..MaxSales, item \in TotalsItems :
        create_sale_item(sale_id, item) /\ UNCHANGED threads

ChangeItemOfSale ==
    \E id \in 1..MaxSaleItems, item \in TotalsItems :
        update_sale_item(id, item) /\ UNCHANGED threads

NextTotals ==
    \/ CreateDiscountedSale
    \/ UpdateDiscountedSale
    \/ AddItemToSale
    \/ ChangeItemOfSale
    \/ DeleteSaleItem

SpecTotals == Init /\ [][NextTotals]_vars

\* round2(sum of the current line totals - discount_amount(that sum) + additional costs)
order_total(s) ==
    LET sum == SumField({r \in sale_items : r.sale_id = s.id}, "total")
    IN round2(sum - compute_discount_amount(sum, s.order_discount_type,
                                            s.order_discount_value)
              + s.additional_cost)

\* C17: after create_sale or update_sale, and after any later create_sale_item,
\* update_sale_item or delete_sale_item on the sale, sales.total_amount equals
\* round2(sum of the current line totals - discount_amount(that sum, order
\* discount type, order discount value) + sum of the additional costs).
C17_TotalIsOrderTotal == \A s \in sales : s.total_amount = order_total(s)

----------------------------------------------------------------------------
(* Discount codes *)

\* a string is the sequence of its characters
Chars == {"a", "B", " "}

RECURSIVE trim_start(_)
trim_start(s) ==
    IF s # <<>> /\ Head(s) = " " THEN trim_start(Tail(s)) ELSE s

RECURSIVE trim_end(_)
trim_end(s) ==
    IF s # <<>> /\ s[Len(s)] = " "
    THEN trim_end(SubSeq(s, 1, Len(s) - 1)) ELSE s

trim(s) == trim_end(trim_start(s))

to_uppercase(s) ==
    [i \in 1..Len(s) |-> IF s[i] = "a" THEN "A"
                         ELSE IF s[i] = "b" THEN "B" ELSE s[i]]

\* type_.eq_ignore_ascii_case("percent")
eq_ignore_ascii_case(a, b) == to_uppercase(a) = to_uppercase(b)

\* an order that looks at the first byte only
FirstByteLess(a, b) ==
    IF b = <<>> THEN FALSE
    ELSE IF a = <<>> THEN TRUE
    ELSE Head(a) < Head(b)

\* the order of str: byte by byte, a proper prefix first
RECURSIVE StrLess(_, _)
StrLess(a, b) ==
    IF b = <<>> THEN FALSE
    ELSE IF a = <<>> THEN TRUE
    ELSE IF Head(a) < Head(b) THEN TRUE
    ELSE IF Head(a) > Head(b) THEN FALSE
    ELSE StrLess(Tail(a), Tail(b))

\* format("%Y-%m-%d") of a day of one month: the digits of the day
FormatDate(day) == ZeroPad(Digits(day), DayWidth)

Days == {9, 10, 11}

CodeNotFound == "Discount code not found"
BelowMinimumPurchase == "Minimum purchase for this code is"
NotYetValid == "Discount code is not yet valid"
Expired == "Discount code has expired"
ExhaustedUses == "Discount code has reached maximum uses"

\* what validate_discount_code returns, with what it was given
Validated(err, code, subtotal, today, discount) ==
    [op |-> "validate_discount_code", err |-> err, code |-> code,
     subtotal |-> subtotal, today |-> today, discount |-> discount]

\* the checks of validate_discount_code on the row it has found
ValidateRow(r, subtotal, today) ==
    IF subtotal < r.min_purchase THEN BelowMinimumPurchase
    ELSE IF r.valid_from # None /\ StrLess(today, r.valid_from[1]) THEN NotYetValid
    ELSE IF r.valid_to # None /\ StrLess(r.valid_to[1], today) THEN Expired
    ELSE IF r.max_uses # None /\ r.use_count >= r.max_uses[1] THEN ExhaustedUses
    ELSE ""

validate_discount_code(code, subtotal, now) ==
    LET code_upper == to_uppercase(trim(code))
        rows == {r \in sale_discount_codes : to_uppercase(trim(r.code)) = code_upper}
        today == FormatDate(now)
    IN /\ IF code_upper = <<>>
          THEN result' = Validated("Code is required", code, subtotal, today, None)
          ELSE IF rows = {}
          THEN result' = Validated(CodeNotFound, code, subtotal, today, None)
          ELSE \E r \in rows :
                  LET err == ValidateRow(r, subtotal, today)
                      discount_type == IF eq_ignore_ascii_case(r.type, <<"p">>)
                                       THEN "percent" ELSE "fixed"
                  IN result' = Validated(err, code, subtotal, today,
                                  IF err = "" THEN Some(<<discount_type, r.value>>)
                                  ELSE None)
       /\ UNCHANGED <<tables, threads>>

\* payload.type_ is "p" for percent, "P" for Percent, "f" for fixed
create_discount_code(payload) ==
    LET code_trimmed == to_uppercase(trim(payload.code))
        discount_type == IF eq_ignore_ascii_case(payload.type_, <<"p">>)
                         THEN <<"p">> ELSE <<"f">>
        row == [id |-> Cardinality(sale_discount_codes) + 1,
                code |-> code_trimmed, type |-> discount_type,
                value |-> payload.value, min_purchase |-> payload.min_purchase,
                valid_from |-> payload.valid_from, valid_to |-> payload.valid_to,
                max_uses |-> payload.max_uses, use_count |-> 0]
    IN /\ Cardinality(sale_discount_codes) < MaxCodes
       /\ IF code_trimmed = <<>>
          THEN /\ result' = Err("create_discount_code", "Code is required")
               /\ UNCHANGED sale_discount_codes
          ELSE IF \E r \in sale_discount_codes : r.code = code_trimmed
          THEN /\ result' = Err("create_discount_code", "duplicate")
               /\ UNCHANGED sale_discount_codes
          ELSE /\ sale_discount_codes' = sale_discount_codes \cup {row}
               /\ result' = Ok("create_discount_code")
       /\ UNCHANGED <<currencies, units, purchase_items, sales, sale_items,
                      sale_payments, accounts, account_transactions,
                      account_currency_balances, journal_entries,
                      journal_entry_lines, purchase_payments, expenses, next_id,
                      threads>>

CodePayloads ==
    [code : {<<>>, <<"a">>, <<" ", "B">>}, type_ : {<<"P">>, <<"f">>},
     value : {10}, min_purchase : {0, MStep},
     valid_from : {None, Some(FormatDate(10))},
     valid_to : {None, Some(FormatDate(10))},
     max_uses : {None, Some(0)}]

CodeInputs ==
    {<<>>, <<" ">>, <<"a">>, <<" ", "a">>, <<"B", " ">>, <<"a", "B">>}

CreateDiscountCode == \E payload \in CodePayloads : create_discount_code(payload)

ValidateDiscountCode ==
    \E code \in CodeInputs, subtotal \in {0, MStep}, now \in Days :
        validate_discount_code(code, subtotal, now)

NextCodes == CreateDiscountCode \/ ValidateDiscountCode

SpecCodes == Init /\ [][NextCodes]_vars

\* the outcome the rule gives: "" for a success, or the first failure that applies
RuleOutcome(code, subtotal, today) ==
    LET stored == {r \in sale_discount_codes : r.code = to_uppercase(trim(code))}
    IN IF stored = {} THEN CodeNotFound
       ELSE LET r == CHOOSE x \in stored : TRUE
                day == ParseInteger(today)
            IN IF ~(subtotal >= r.min_purchase) THEN BelowMinimumPurchase
               ELSE IF r.valid_from # None /\ ~(ParseInteger(r.valid_from[1]) <= day)
                    THEN NotYetValid
               ELSE IF r.valid_to # None /\ ~(day <= ParseInteger(r.valid_to[1]))
                    THEN Expired
               ELSE IF r.max_uses # None /\ ~(r.use_count < r.max_uses[1])
                    THEN ExhaustedUses
               ELSE ""

OutcomeFollowsRule ==
    result.op = "validate_discount_code" =>
        result.err = RuleOutcome(result.code, result.subtotal, result.today)

OutcomeFollowsRuleForNonBlank ==
    (result.op = "validate_discount_code" /\ trim(result.code) # <<>>) =>
        result.err = RuleOutcome(result.code, result.subtotal, result.today)

\* a step that returns from validate_discount_code leaves the stored codes alone
ValidateWritesNothing ==
    result'.op = "validate_discount_code"
        => sale_discount_codes' = sale_discount_codes

\* C18 as stated: validate_discount_code(code, subtotal) succeeds exactly when a
\* stored code equals the trimmed, upper-cased input, subtotal >= min_purchase,
\* valid_from <= today <= valid_to (each bound when set) and use_count < max_uses
\* (when set); otherwise it fails with the first applicable of not-found,
\* below-minimum-purchase, not-yet-valid, expired, exhausted-uses; in every case
\* the use_count of the code is unchanged
C18_AnyInputFollowsRule == []OutcomeFollowsRule /\ [][ValidateWritesNothing]_vars

\* C18: for an input that is not blank after trimming, validate_discount_code
\* succeeds exactly when a stored code equals the trimmed, upper-cased input,
\* subtotal >= min_purchase, valid_from <= today <= valid_to (each bound when set)
\* and use_count < max_uses (when set); otherwise it fails with the first
\* applicable of not-found, below-minimum-purchase, not-yet-valid, expired,
\* exhausted-uses; in every case the stored codes and their use_count are unchanged
C18_ValidateFollowsRule ==
    []OutcomeFollowsRuleForNonBlank /\ [][ValidateWritesNothing]_vars

\* a code given in lower case with a blank before it is found and accepted
C18_Witness ==
    /\ result.op = "validate_discount_code"
    /\ result.code = <<" ", "a">>
    /\ result.err = ""
    /\ \E r \in sale_discount_codes :
          r.code = <<"A">> /\ r.valid_from # None /\ r.max_uses = None

----------------------------------------------------------------------------
(* Consumption in the unit of the sale item *)

\* one whole unit of quantity, in steps
Piece == 1000000 * QStep

\* pieces (ratio 1) and boxes of 12 pieces; batch 1 was purchased as 2 boxes,
\* batch 2 as 30 pieces
InitUnits ==
    /\ currencies = (1 :> [name |-> "AFN", base |-> TRUE]) @@
                    (2 :> [name |-> "USD", base |-> FALSE])
    /\ units = (1 :> [ratio |-> 1]) @@ (2 :> [ratio |-> 12])
    /\ purchase_items =
          (1 :> [purchase_id |-> 1, amount |-> 2 * Piece, unit_id |-> 2,
                 per_price |-> 1]) @@
          (2 :> [purchase_id |-> 1, amount |-> 30 * Piece, unit_id |-> 1,
                 per_price |-> 1])
    /\ sale_discount_codes = {}
    /\ InitEmpty
    /\ NoThreads
    /\ accounts = <<>>
    /\ account_currency_balances = <<>>

\* sale items on a batch, in pieces, in boxes, or in a unit that is not in the table
UnitItems ==
    [unit_id : {1, 2, 3}, per_price : Prices, amount : {Piece, 2 * Piece},
     purchase_item_id : {1, 2}, discount : LineDiscounts]

CreateSaleInUnit ==
    \E item \in UnitItems :
        /\ create_sale(NULL, 1, 0, <<>>, <<item>>, <<"none", 0>>)
        /\ UNCHANGED threads

CreateSaleItemInUnit ==
    \E sale_id \in 1..MaxSales, item \in UnitItems :
        create_sale_item(sale_id, item) /\ UNCHANGED threads

NextUnits == CreateSaleInUnit \/ CreateSaleItemInUnit \/ DeleteSaleItem

SpecUnits == InitUnits /\ [][NextUnits]_vars

\* the ratio the claim gives to a unit id
RatioOrOne(unit_id) == IF unit_id \in DOMAIN units THEN units[unit_id].ratio ELSE 1

\* C19: a sale item of amount q in unit u that references a batch reduces the
\* remaining base quantity of that batch by exactly q x ratio(u), whatever unit the
\* batch was purchased in (2 boxes of ratio 12 consume 24 base units); a unit id
\* that cannot be resolved counts with ratio 1
C19_UnitPreciseConsumption ==
    [][\A sale_id \in 1..MaxSales, item \in UnitItems :
          (/\ create_sale_item(sale_id, item)
           /\ result'.err = "")
          => LET b == item.purchase_item_id
                 reduction == get_batch_remaining_base(b)
                              - BatchRemainingBase(sale_items', b)
             IN /\ reduction = item.amount * RatioOrOne(item.unit_id)
                /\ item.unit_id = 3 => reduction = item.amount
                /\ (item.unit_id = 2 /\ item.amount = 2 * Piece)
                       => reduction = 24 * Piece
      ]_vars

\* 2 boxes sold from the batch purchased as 30 pieces leave 6 pieces, and an item
\* in an unknown unit is on the batch purchased in boxes
C19_Witness ==
    /\ result = Ok("create_sale_item")
    /\ get_batch_remaining_base(2) = 6 * Piece
    /\ \E r \in sale_items :
          r.purchase_item_id = 2 /\ r.unit_id = 2 /\ r.amount = 2 * Piece
    /\ \E r \in sale_items : r.purchase_item_id = 1 /\ r.unit_id = 3

----------------------------------------------------------------------------
(* The validation of update_sale_item *)

\* update_sale_item has accepted the item
Accepted == result'.err = ""

\* the update of a row that references the batch of the item already: accepted
\* exactly when the new base amount is within the remaining quantity plus the old
\* base amount of the row; an unchanged item is accepted
SameBatchRule(cur, item) ==
    LET b == item.purchase_item_id
        new_base == amount_to_base(item.amount, item.unit_id)
        old_base == amount_to_base(cur.amount, cur.unit_id)
    IN /\ Accepted <=> new_base <= get_batch_remaining_base(b) + old_base
       /\ (item.amount = cur.amount /\ item.unit_id = cur.unit_id) => Accepted

\* the same update validates against the state without the row
ExcludesOwnRow(cur, item) ==
    LET b == item.purchase_item_id
        new_base == amount_to_base(item.amount, item.unit_id)
    IN Accepted <=> new_base <= RemainingExcluding(b, cur.id)

\* the update of a row that moves to another batch: nothing is added back
OtherBatchRule(cur, item) ==
    LET b == item.purchase_item_id
        new_base == amount_to_base(item.amount, item.unit_id)
    IN Accepted <=> new_base <= get_batch_remaining_base(b)

\* C20: update_sale_item validates against the state excluding the row being
\* updated: when the row already references the batch of the item, the update is
\* accepted if and only if new_base <= remaining_base + old_base of that row (so
\* re-saving an unchanged item is always accepted); when the item moves to a
\* different batch nothing is added back
C20_UpdateExcludesOwnRow ==
    [][\A cur \in sale_items, item \in ItemInputs :
          (item.purchase_item_id # NULL /\ update_sale_item(cur.id, item))
          => IF cur.purchase_item_id = item.purchase_item_id
             THEN SameBatchRule(cur, item) /\ ExcludesOwnRow(cur, item)
             ELSE OtherBatchRule(cur, item)
      ]_vars

----------------------------------------------------------------------------
(* Purchases: the commands that write purchase_items *)

\* UPDATE purchase_items SET unit_id, per_price, amount, total, ... WHERE id = ?
\* (a row that does not exist is not updated and the command returns an error)
update_purchase_item(id, unit_id, per_price, amount) ==
    /\ IF id \in DOMAIN purchase_items
       THEN /\ purchase_items' =
                  [purchase_items EXCEPT ![id] =
                      [@ EXCEPT !.unit_id = unit_id, !.per_price = per_price,
                                !.amount = amount]]
            /\ result' = Ok("update_purchase_item")
       ELSE /\ result' = Err("update_purchase_item",
                             "Failed to retrieve updated purchase item")
            /\ UNCHANGED purchase_items
    /\ UNCHANGED <<currencies, units, sale_discount_codes, sales, sale_items,
                   sale_payments, accounts, account_transactions,
                   account_currency_balances, journal_entries,
                   journal_entry_lines, purchase_payments, expenses, next_id,
                   threads>>

\* the rows update_purchase inserts for its items, with the next ids
PurchaseItemRows(purchase_id, first_id, items) ==
    [i \in first_id..(first_id + Len(items) - 1) |->
        [purchase_id |-> purchase_id,
         amount |-> items[i - first_id + 1].amount,
         unit_id |-> items[i - first_id + 1].unit_id,
         per_price |-> items[i - first_id + 1].per_price]]

\* the rows of a function outside a set of keys
Without(f, keys) == [k \in DOMAIN f \ keys |-> f[k]]

\* DELETE FROM purchase_items WHERE purchase_id = ?; then one INSERT per item.
\* Taken for a purchase none of whose batches is referenced by a sale item.
update_purchase(id, items) ==
    LET old == {b \in DOMAIN purchase_items : purchase_items[b].purchase_id = id}
    IN /\ next_id.purchase_items + Len(items) - 1 <= MaxBatches
       /\ \A r \in sale_items : r.purchase_item_id \notin old
       /\ purchase_items' =
             Without(purchase_items, old) @@
             PurchaseItemRows(id, next_id.purchase_items, items)
       /\ next_id' = [next_id EXCEPT !.purchase_items = @ + Len(items)]
       /\ result' = Ok("update_purchase")
       /\ UNCHANGED <<currencies, units, sale_discount_codes, sales, sale_items,
                      sale_payments, accounts, account_transactions,
                      account_currency_balances, journal_entries,
                      journal_entry_lines, purchase_payments, expenses, threads>>

PurchaseItemInputs == [unit_id : UnitIds, per_price : {1, 2}, amount : Amounts]

UpdatePurchaseItem ==
    \E id \in 1..MaxBatches, item \in PurchaseItemInputs :
        update_purchase_item(id, item.unit_id, item.per_price, item.amount)

UpdatePurchase ==
    \E items \in [{1} -> PurchaseItemInputs] : update_purchase(1, items)

\* a sale of one line that references a batch of the table
CreateSaleOnBatch ==
    \E item \in ItemInputs :
        /\ item.purchase_item_id \in DOMAIN purchase_items
        /\ create_sale(NULL, 1, 0, <<>>, <<item>>, <<"none", 0>>)
        /\ UNCHANGED threads

NextPurchases == UpdatePurchaseItem \/ UpdatePurchase \/ CreateSaleOnBatch

SpecPurchases == Init /\ [][NextPurchases]_vars

Referenced(b) == \E r \in sale_items : r.purchase_item_id = b

\* the batch is still there, with the amount, the unit and the price it had
KeepsBatch(b) ==
    /\ b \in DOMAIN purchase_items'
    /\ purchase_items'[b] = purchase_items[b]

BatchesAreKept == \A b \in DOMAIN purchase_items : KeepsBatch(b)

ReferencedBatchesAreKept ==
    \A b \in DOMAIN purchase_items : Referenced(b) => KeepsBatch(b)

\* C21: once a purchase item (batch) exists, no command changes its amount, unit
\* or prices; in particular no command changes them, or replaces the batch row,
\* after a sale item references the batch
C21_BatchImmutability == [][BatchesAreKept /\ ReferencedBatchesAreKept]_vars

----------------------------------------------------------------------------
(* Currencies *)

\* UPDATE currencies SET base = 0 [WHERE id != ?]
UnsetBase(rows, except) ==
    [c \in DOMAIN rows |-> IF c \in except THEN rows[c]
                           ELSE [rows[c] EXCEPT !.base = FALSE]]

OtherTablesThanCurrencies ==
    <<units, purchase_items, sale_discount_codes, sales, sale_items,
      sale_payments, accounts, account_transactions, account_currency_balances,
      journal_entries, journal_entry_lines, purchase_payments, expenses, threads>>

create_currency(name, base) ==
    /\ next_id.currencies <= MaxCurrencies
    /\ \A c \in DOMAIN currencies : currencies[c].name # name
    /\ currencies' =
          (IF base THEN UnsetBase(currencies, {}) ELSE currencies) @@
          (next_id.currencies :> [name |-> name, base |-> base])
    /\ next_id' = [next_id EXCEPT !.currencies = @ + 1]
    /\ result' = Ok("create_currency")
    /\ UNCHANGED OtherTablesThanCurrencies

update_currency(id, name, base) ==
    LET unset == IF base THEN UnsetBase(currencies, {id}) ELSE currencies
    IN /\ \A c \in DOMAIN currencies \ {id} : currencies[c].name # name
       /\ IF id \in DOMAIN currencies
          THEN /\ currencies' = [unset EXCEPT ![id] = [name |-> name, base |-> base]]
               /\ result' = Ok("update_currency")
          ELSE /\ currencies' = unset
               /\ result' = Err("update_currency",
                                "Failed to retrieve updated currency")
       /\ UNCHANGED <<OtherTablesThanCurrencies, next_id>>

delete_currency(id) ==
    /\ currencies' = [c \in DOMAIN currencies \ {id} |-> currencies[c]]
    /\ result' = Ok("delete_currency")
    /\ UNCHANGED <<OtherTablesThanCurrencies, next_id>>

CurrencyNameInputs == {"AFN", "USD", "EUR"}

CreateCurrency ==
    \E name \in CurrencyNameInputs, base \in BOOLEAN : create_currency(name, base)

UpdateCurrency ==
    \E id \in 1..MaxCurrencies, name \in CurrencyNameInputs, base \in BOOLEAN :
        update_currency(id, name, base)

DeleteCurrency == \E id \in 1..MaxCurrencies : delete_currency(id)

NextCurrencies == CreateCurrency \/ UpdateCurrency \/ DeleteCurrency

\* the currencies after create_currency("AFN", true) and create_currency("USD", false)
SpecCurrencies == Init /\ [][NextCurrencies]_vars

BaseCurrencies == {c \in DOMAIN currencies : currencies[c].base}

\* C22: after any sequence of create_currency, update_currency and delete_currency
\* calls that follows the creation of a first base currency, exactly one currency
\* is marked base (never zero, never two)
C22_ExactlyOneBase == Cardinality(BaseCurrencies) = 1

----------------------------------------------------------------------------
(* Units *)

OtherTablesThanUnits ==
    <<currencies, purchase_items, sale_discount_codes, sales, sale_items,
      sale_payments, accounts, account_transactions, account_currency_balances,
      journal_entries, journal_entry_lines, purchase_payments, expenses, next_id,
      threads>>

\* INSERT INTO units (name, group_id, ratio, is_base); no row is deleted here, so
\* the AUTO_INCREMENT id is the number of rows plus one
create_unit(group_id, ratio, is_base) ==
    /\ Len(units) < MaxUnits
    /\ units' = Append(units, [group_id |-> group_id, ratio |-> ratio,
                               is_base |-> is_base])
    /\ result' = Ok("create_unit")
    /\ UNCHANGED OtherTablesThanUnits

\* UPDATE units SET name, group_id, ratio, is_base WHERE id = ?
update_unit(id, group_id, ratio, is_base) ==
    /\ IF id \in DOMAIN units
       THEN /\ units' = [units EXCEPT ![id] = [group_id |-> group_id,
                                               ratio |-> ratio,
                                               is_base |-> is_base]]
            /\ result' = Ok("update_unit")
       ELSE /\ result' = Err("update_unit", "Failed to retrieve updated unit")
            /\ UNCHANGED units
    /\ UNCHANGED OtherTablesThanUnits

UnitGroupInputs == {NULL, 1}
RatioInputs == {-1, 0, 1, 2}

CreateUnit ==
    \E group_id \in UnitGroupInputs, ratio \in RatioInputs, is_base \in BOOLEAN :
        create_unit(group_id, ratio, is_base)

UpdateUnit ==
    \E id \in 1..MaxUnits, group_id \in UnitGroupInputs, ratio \in RatioInputs,
       is_base \in BOOLEAN :
        update_unit(id, group_id, ratio, is_base)

NextUnitTable == CreateUnit \/ UpdateUnit

\* a database with one unit group and no unit yet
InitUnitTable ==
    /\ currencies = (1 :> [name |-> "AFN", base |-> TRUE]) @@
                    (2 :> [name |-> "USD", base |-> FALSE])
    /\ units = <<>>
    /\ purchase_items = <<>>
    /\ sale_discount_codes = {}
    /\ InitEmpty
    /\ NoThreads
    /\ accounts = <<>>
    /\ account_currency_balances = <<>>

SpecUnitTable == InitUnitTable /\ [][NextUnitTable]_vars

UnitGroupsInUse == {units[u].group_id : u \in DOMAIN units} \ {NULL}

BaseUnitsOf(g) == {u \in DOMAIN units : units[u].group_id = g /\ units[u].is_base}

\* C23: after any sequence of create_unit and update_unit calls, every stored unit
\* has ratio > 0 and every unit group has exactly one unit flagged base, with ratio 1
C23_UnitWellFormedness ==
    /\ \A u \in DOMAIN units : units[u].ratio > 0
    /\ \A g \in UnitGroupsInUse :
          /\ Cardinality(BaseUnitsOf(g)) = 1
          /\ \A u \in BaseUnitsOf(g) : units[u].ratio = 1

----------------------------------------------------------------------------
(* The open batches of a product *)

\* ROUND(n / d, 6) of SQL: the quotient rounded half away from zero
round6_div(n, d) ==
    IF n >= 0 THEN ((2 * n + d * QStep) \div (2 * d * QStep)) * QStep
    ELSE -(((2 * (-n) + d * QStep) \div (2 * d * QStep)) * QStep)

\* the column remaining_quantity of get_product_batches, in the unit of the batch
remaining_quantity(b) ==
    LET pi == purchase_items[b]
        ratio == get_unit_ratio(pi.unit_id)
        sold_base == SumBase(Consumptions(sale_items, b))
    IN round6(round6_div(pi.amount * ratio - sold_base, ratio))

\* b comes before c in ORDER BY p.date ASC, pi.id ASC
BatchBefore(b, c) ==
    \/ purchase_items[b].date < purchase_items[c].date
    \/ purchase_items[b].date = purchase_items[c].date /\ b < c

RECURSIVE OrderBatches(_)
OrderBatches(S) ==
    IF S = {} THEN <<>>
    ELSE LET first == CHOOSE b \in S : \A c \in S \ {b} : BatchBefore(b, c)
         IN <<first>> \o OrderBatches(S \ {first})

get_product_batches(product_id) ==
    LET kept == {b \in DOMAIN purchase_items :
                    /\ purchase_items[b].product_id = product_id
                    /\ remaining_quantity(b) > 0}
        ordered == OrderBatches(kept)
    IN /\ result' = [op |-> "get_product_batches", err |-> "",
                     product_id |-> product_id,
                     batches |-> [i \in 1..Len(ordered) |->
                                    [purchase_item_id |-> ordered[i],
                                     remaining_quantity |->
                                         remaining_quantity(ordered[i])]]]
       /\ UNCHANGED <<tables, threads>>

\* pieces and boxes of 12 pieces. Product 1 has batch 1 (one box, purchased on
\* day 2) and batch 2 (two pieces, day 1); product 2 has batch 3 (one piece, day 1).
\* date is the date of the purchase the row is joined to.
InitBatches ==
    /\ currencies = (1 :> [name |-> "AFN", base |-> TRUE]) @@
                    (2 :> [name |-> "USD", base |-> FALSE])
    /\ units = (1 :> [ratio |-> 1]) @@ (2 :> [ratio |-> 12])
    /\ purchase_items =
          (1 :> [purchase_id |-> 2, product_id |-> 1, date |-> 2,
                 amount |-> Piece, unit_id |-> 2, per_price |-> 1]) @@
          (2 :> [purchase_id |-> 1, product_id |-> 1, date |-> 1,
                 amount |-> 2 * Piece, unit_id |-> 1, per_price |-> 1]) @@
          (3 :> [purchase_id |-> 1, product_id |-> 2, date |-> 1,
                 amount |-> Piece, unit_id |-> 1, per_price |-> 1])
    /\ sale_discount_codes = {}
    /\ InitEmpty
    /\ NoThreads
    /\ accounts = <<>>
    /\ account_currency_balances = <<>>

\* sale items in pieces: one, two, a whole box, or a box less 0.000001 piece
BatchItems ==
    [unit_id : {1}, per_price : Prices,
     amount : {Piece, 2 * Piece, 12 * Piece, 12 * Piece - QStep},
     purchase_item_id : {1, 2, 3}, discount : LineDiscounts]

CreateSaleFromBatch ==
    \E item \in BatchItems :
        /\ create_sale(NULL, 1, 0, <<>>, <<item>>, <<"none", 0>>)
        /\ UNCHANGED threads

GetProductBatches == \E product_id \in {1, 2} : get_product_batches(product_id)

NextBatches == CreateSaleFromBatch \/ DeleteSaleItem \/ GetProductBatches

SpecBatches == InitBatches /\ [][NextBatches]_vars

Listed == {result.batches[i].purchase_item_id : i \in DOMAIN result.batches}

\* C24: get_product_batches(product) returns exactly the batches of the product
\* whose remaining quantity is > 0 (a fully consumed batch is never listed, a batch
\* with stock left is always listed), ordered by purchase date ascending and then
\* by purchase item id ascending
C24_OpenBatchesListed ==
    result.op = "get_product_batches" =>
        /\ Listed = {b \in DOMAIN purchase_items :
                        /\ purchase_items[b].product_id = result.product_id
                        /\ get_batch_remaining_base(b) > 0}
        /\ \A i, j \in DOMAIN result.batches :
              i < j => BatchBefore(result.batches[i].purchase_item_id,
                                   result.batches[j].purchase_item_id)

----------------------------------------------------------------------------
(* The license key (license.rs) *)

\* Bytes are numbers 0..255 and strings of hexadecimal digits are sequences of
\* characters. SHA-256 and AES-256-GCM are stood for by fixed arithmetic functions
\* of their arguments with short outputs: 4 bytes for the 32 of a digest, 2 for
\* the 16 of the machine id, 1 for the 12 of the nonce.

HexChars ==
    <<"0", "1", "2", "3", "4", "5", "6", "7", "8", "9", "a", "b", "c", "d", "e", "f">>

UpperHexChars ==
    <<"0", "1", "2", "3", "4", "5", "6", "7", "8", "9", "A", "B", "C", "D", "E", "F">>

RECURSIVE hex_encode(_)
hex_encode(bytes) ==
    IF bytes = <<>> THEN <<>>
    ELSE <<HexChars[(Head(bytes) \div 16) + 1], HexChars[(Head(bytes) % 16) + 1]>>
         \o hex_encode(Tail(bytes))

\* str::as_bytes of a string of lower-case hexadecimal digits
as_bytes(str) ==
    [i \in 1..Len(str) |->
        LET k == CHOOSE n \in 1..16 : HexChars[n] = str[i]
        IN IF k <= 10 THEN 47 + k ELSE 86 + k]

\* the string as it is, for a comparison that looks at the case
KeepCase(str) == str

to_lowercase(str) ==
    [i \in 1..Len(str) |->
        IF \E n \in 1..16 : UpperHexChars[n] = str[i]
        THEN HexChars[CHOOSE n \in 1..16 : UpperHexChars[n] = str[i]]
        ELSE str[i]]

RECURSIVE WeightedSum(_)
WeightedSum(bytes) ==
    IF bytes = <<>> THEN 0
    ELSE Len(bytes) * bytes[Len(bytes)]
         + WeightedSum(SubSeq(bytes, 1, Len(bytes) - 1))

Sha256(bytes) ==
    LET sum == SumSeq(bytes)
        weighted == WeightedSum(bytes)
    IN <<(7 * sum + 3) % 256, (weighted + Len(bytes)) % 256,
         (sum + 5 * weighted + 1) % 256, (3 * sum + weighted) % 256>>

\* cipher.encrypt(nonce, plaintext): the ciphertext and the tag
Aes256GcmEncrypt(key, nonce, plaintext) ==
    [i \in 1..Len(plaintext) |->
        (plaintext[i] + key[((i - 1) % Len(key)) + 1] + nonce[1]) % 256]
    \o <<(SumSeq(plaintext) + SumSeq(key) + SumSeq(nonce)) % 256>>

SECRET_KEY_BASE == <<99, 111, 109>>
SALT == <<102, 105>>

derive_key == Sha256(SECRET_KEY_BASE \o SALT)

RECURSIVE Join(_)
Join(components) ==
    IF components = <<>> THEN <<>>
    ELSE IF Len(components) = 1 THEN Head(components)
    ELSE Head(components) \o <<124>> \o Join(Tail(components))

\* what sysinfo reports of the machine: Option values for the first CPU's brand,
\* the host name, the system name and the kernel version, then the total memory
\* and the number of CPUs
generate_machine_id(system) ==
    LET components ==
            (IF system.cpu # None THEN <<<<1>> \o system.cpu[1]>> ELSE <<>>)
            \o (IF system.host_name # None THEN <<<<2>> \o system.host_name[1]>>
                ELSE <<>>)
            \o (IF system.name # None THEN <<<<3>> \o system.name[1]>> ELSE <<>>)
            \o (IF system.kernel_version # None
                THEN <<<<4>> \o system.kernel_version[1]>> ELSE <<>>)
            \o <<<<5, system.total_memory>>>>
            \o <<<<6, system.cpus>>>>
        hash == Sha256(Join(components))
    IN hex_encode(SubSeq(hash, 1, 2))

encrypt_machine_id(machine_id) ==
    LET key == derive_key
        nonce_hash == Sha256(as_bytes(machine_id) \o SALT)
        nonce == SubSeq(nonce_hash, 1, 1)
        ciphertext == Aes256GcmEncrypt(key, nonce, as_bytes(machine_id))
    IN hex_encode(nonce \o ciphertext)

validate_license_key(system, entered_key) ==
    LET machine_id == generate_machine_id(system)
        encrypted == encrypt_machine_id(machine_id)
    IN to_lowercase(encrypted) = to_lowercase(entered_key)

Systems ==
    [cpu : {None, Some(<<7>>)},
     host_name : {None, Some(<<8>>), Some(<<8, 9>>)},
     name : {Some(<<10>>)}, kernel_version : {None, Some(<<11>>)},
     total_memory : {16, 32}, cpus : {1, 4}]

\* the key of the machine in capital letters
UpperCased(str) ==
    [i \in 1..Len(str) |->
        UpperHexChars[CHOOSE n \in 1..16 : HexChars[n] = str[i]]]

\* the keys a user may enter on the machine: its key, its key in capital
\* letters, and the key of a machine with another memory size
EnteredKeys(system) ==
    LET key == encrypt_machine_id(generate_machine_id(system))
    IN {key, UpperCased(key),
        encrypt_machine_id(generate_machine_id(
            [system EXCEPT !.total_memory = 48 - @]))}

\* the program runs on one machine, whose description does not change
InitLicense ==
    /\ InitCatalog
    /\ InitEmpty
    /\ accounts = <<>>
    /\ account_currency_balances = <<>>
    /\ db_state = <<>>
    /\ conn = OpenConnection
    /\ pc = <<"license">>
    /\ \E system \in Systems : call = <<[system |-> system]>>

GenerateMachineId ==
    /\ result' = [op |-> "generate_machine_id", err |-> "",
                  value |-> generate_machine_id(call[1].system)]
    /\ UNCHANGED <<tables, threads>>

EncryptMachineId ==
    \E machine_id \in {generate_machine_id(system) : system \in Systems} :
        /\ result' = [op |-> "encrypt_machine_id", err |-> "",
                      input |-> machine_id,
                      value |-> encrypt_machine_id(machine_id)]
        /\ UNCHANGED <<tables, threads>>

ValidateLicenseKey ==
    \E entered_key \in EnteredKeys(call[1].system) :
        /\ result' = [op |-> "validate_license_key", err |-> "",
                      input |-> entered_key,
                      value |-> validate_license_key(call[1].system, entered_key)]
        /\ UNCHANGED <<tables, threads>>

NextLicense == GenerateMachineId \/ EncryptMachineId \/ ValidateLicenseKey

SpecLicense == InitLicense /\ [][NextLicense]_vars

\* two calls in a row with the same input return the same
SameOutput ==
    /\ (result.op = "generate_machine_id" /\ result'.op = "generate_machine_id")
          => result'.value = result.value
    /\ (/\ result.op = "encrypt_machine_id" /\ result'.op = "encrypt_machine_id"
        /\ result'.input = result.input)
          => result'.value = result.value

\* the key made for the machine is accepted, in small and in capital letters
OwnKeyIsValid ==
    \A key \in {encrypt_machine_id(generate_machine_id(call[1].system))} :
        (/\ result.op = "validate_license_key"
         /\ result.input \in {key, UpperCased(key)})
        => result.value = TRUE

----------------------------------------------------------------------------
(* Editing a journal entry again with the lines it already has              *)

\* a database with one journal entry of one debit line and no transactions
InitEntry ==
    /\ InitCatalog
    /\ NoThreads
    /\ accounts = [ChartOfAccounts EXCEPT ![1] = AccountRow("other", 2 * MStep)]
    /\ account_currency_balances = (<<1, 1>> :> 3 * MStep)
    /\ sales = {}
    /\ sale_items = {}
    /\ sale_payments = {}
    /\ account_transactions = {}
    /\ journal_entries = {[id |-> 1, entry_number |-> FormatEntryNumber(1),
                           reference_type |-> "manual", reference_id |-> NULL]}
    /\ journal_entry_lines =
           LineRows(1, 1, <<JournalLine(1, 1, MStep, 0, 1)>>)
    /\ purchase_payments = {}
    /\ expenses = {}
    /\ next_id = [sales |-> 1, sale_items |-> 1, sale_payments |-> 1,
                  account_transactions |-> 1, journal_entries |-> 2,
                  journal_entry_lines |-> 2, purchase_payments |-> 1,
                  expenses |-> 1, purchase_items |-> 3,
                  currencies |-> 3]
    /\ result = Ok("init")

NextEntry ==
    \/ UpdateJournalEntry
    \/ DepositPayment
    \/ WithdrawPayment

SpecEntry == InitEntry /\ [][NextEntry]_vars

\* the lines of the entry are the rows the last update_journal_entry inserted for
\* new_lines: the command has been called with new_lines for this entry
CalledWith(entry_id, new_lines) ==
    /\ result.op = "update_journal_entry"
    /\ next_id.journal_entry_lines > Len(new_lines)
    /\ {l \in journal_entry_lines : l.journal_entry_id = entry_id} =
           LineRows(entry_id, next_id.journal_entry_lines - Len(new_lines),
                    new_lines)

SecondCall(entry_id, new_lines) ==
    /\ new_lines # <<>>
    /\ CalledWith(entry_id, new_lines)
    /\ update_journal_entry(entry_id, new_lines)

SameTotals ==
    \A a \in DOMAIN accounts :
        calculate_account_balance_internal(accounts', account_transactions', a) =
            calculate_account_balance_internal(accounts, account_transactions, a)

\* C26: a second update_journal_entry with the same new_lines for the same entry
\* changes no per-currency balance, adds no account_transactions row and leaves
\* every account's recomputed total balance unchanged
C26_UpdateJournalEntryIdempotent ==
    [][\A entry_id \in 1..MaxTx, new_lines \in EntryLineLists :
           SecondCall(entry_id, new_lines) =>
               /\ account_currency_balances' = account_currency_balances
               /\ account_transactions' = account_transactions
               /\ SameTotals]_vars

\* what the code keeps on a second call: the per-currency balances
BalancesKeptBySecondCall ==
    [][\A entry_id \in 1..MaxTx, new_lines \in EntryLineLists :
           SecondCall(entry_id, new_lines) =>
               account_currency_balances' = account_currency_balances]_vars

----------------------------------------------------------------------------
(* A sale payment that is created and then deleted                          *)

delete_sale_payment(id) ==
    IF ~(\E p \in sale_payments : p.id = id)
    THEN /\ result' = Err("delete_sale_payment", "Sale payment not found")
         /\ UNCHANGED tables
    ELSE LET payment == CHOOSE p \in sale_payments : p.id = id
             sale_id == payment.sale_id
             payments == sale_payments \ {payment}
         IN /\ sale_payments' = payments
            /\ sales' = {IF x.id = sale_id
                         THEN [x EXCEPT !.paid_amount =
                                  SumField({q \in payments : q.sale_id = sale_id},
                                           "amount")]
                         ELSE x : x \in sales}
            /\ result' = Ok("delete_sale_payment")
            /\ UNCHANGED <<catalog, sale_items, accounts, account_transactions,
                           account_currency_balances, journal_entries,
                           journal_entry_lines, purchase_payments, expenses,
                           next_id>>

\* what a caller reads of sale 1 and of the account before it pays into the
\* account: get_sale, get_account_balance_by_currency for every currency,
\* get_account_transactions and get_account_balance
Observed(account_id) ==
    [account_id |-> account_id,
     paid_amount |-> (CHOOSE x \in sales : x.id = 1).paid_amount,
     balances |-> [c \in DOMAIN currencies |->
                      BalanceIn(account_currency_balances, account_id, c)],
     transactions |-> {t \in account_transactions : t.account_id = account_id},
     total |-> get_account_balance(account_id)]

\* the amounts paid for the sale
PaidSums == {MStep, 2 * MStep}

\* the caller reads the values, then creates the payment
PaySale ==
    \E account_id \in PayingAccounts, currency_id \in SaleCurrencies,
       exchange_rate \in Rates, amount \in PaidSums :
        /\ pc = <<>>
        /\ create_sale_payment(1, account_id, currency_id, exchange_rate, amount)
        /\ pc' = <<"paid">>
        /\ call' = <<Observed(account_id)>>
        /\ UNCHANGED <<db_state, conn>>

\* and deletes the payment it has created
DeleteSalePayment ==
    /\ pc = <<"paid">>
    /\ delete_sale_payment(next_id.sale_payments - 1)
    /\ pc' = <<"deleted">>
    /\ UNCHANGED <<db_state, conn, call>>

\* other movements of the account, before the payment
MoveBeforePayment ==
    /\ pc = <<>>
    /\ DepositPayment \/ WithdrawPayment

NextPayments ==
    \/ MoveBeforePayment
    \/ PaySale
    \/ DeleteSalePayment

SpecPayments == InitAccounts /\ [][NextPayments]_vars

\* C27: create_sale_payment into an account followed by delete_sale_payment of
\* that payment restores the sale's paid_amount and the paying account's
\* per-currency balances, transactions and recomputed total balance
C27_PaymentRoundTrip ==
    (/\ pc = <<"deleted">>
     /\ result = Ok("delete_sale_payment")
     /\ call[1].account_id # NULL)
        => Observed(call[1].account_id) = call[1]

\* what the deletion does restore: the sale's paid_amount
PaidAmountRestored ==
    (pc = <<"deleted">> /\ result = Ok("delete_sale_payment"))
        => Observed(call[1].account_id).paid_amount = call[1].paid_amount

----------------------------------------------------------------------------
(* A purchase payment that is rejected                                      *)

\* the step is a create_purchase_payment that returns the insufficient-balance
\* error
PurchasePaymentRejected ==
    result' = Err("create_purchase_payment", InsufficientInAccount)

\* C28: a create_purchase_payment that fails with the insufficient-balance error
\* leaves no purchase_payments row, no account transaction and no balance change
C28_RejectedPaymentLeavesNothing ==
    [][PurchasePaymentRejected =>
           /\ purchase_payments' = purchase_payments
           /\ account_transactions' = account_transactions
           /\ account_currency_balances' = account_currency_balances
           /\ accounts' = accounts]_vars

\* what the rejected call does leave alone: the account
RejectedPaymentKeepsAccount ==
    [][PurchasePaymentRejected =>
           /\ account_transactions' = account_transactions
           /\ account_currency_balances' = account_currency_balances
           /\ accounts' = accounts]_vars

----------------------------------------------------------------------------
(* The commands that take money out of an account, and deposits             *)

NextMovements ==
    \/ DepositPayment
    \/ WithdrawPayment
    \/ CreateExpense
    \/ CreatePurchasePayment

SpecMovements == InitAccounts /\ [][NextMovements]_vars

\* C29: starting from non-negative balances, after any sequence of deposit_account,
\* withdraw_account, create_expense and create_purchase_payment calls, with their
\* journal postings, every per-currency balance is at least 0
C29_BalancesNeverNegative ==
    \A pair \in DOMAIN account_currency_balances :
        account_currency_balances[pair] >= 0

----------------------------------------------------------------------------
(* The connection of a Database (db.rs).  Every method locks the Mutex      *)
(* around conn for its whole body, so a call is two steps of its thread:    *)
(* the call is made, and the body runs under the lock and returns.          *)

DbThreads == {1, 2}

\* the connections Conn::new can return
ConnIds == 1..MaxConns

\* a statement MySQL prepares and one it rejects
Statements == {"SELECT 1", "SELEC"}

NotOpen == "Database is not open. Please open it first."
ConnectError == "connect error"
SqlError == "sql error"

StatementOps == {"execute", "query", "get_columns", "with_connection"}
LifecycleOps == {"open", "close", "is_open"}

\* Option::is_some as if no connection were ever stored
NeverSome(opt) == FALSE

\* Option::is_some
is_some(opt) == opt # None

\* conn.prep(sql): the connection after it has prepared one more statement
prep(c) == [c EXCEPT !.prepared = @ + 1]

\* conn_guard.as_mut().ok_or_else(..)?, conn.prep(sql)? and the rest of the body
\* of execute, query, get_columns and with_connection
RunStatement(op, sql) ==
    IF ~is_some(conn)
    THEN /\ result' = Err(op, NotOpen)
         /\ UNCHANGED conn
    ELSE /\ conn[1].prepared < MaxPrepared
         /\ IF sql = "SELECT 1"
            THEN /\ conn' = Some(prep(conn[1]))
                 /\ result' = Ok(op)
            ELSE /\ result' = Err(op, SqlError)
                 /\ UNCHANGED conn

open ==
    IF is_some(conn)
    THEN /\ result' = Ok("open")
         /\ UNCHANGED conn
    ELSE \/ \E id \in ConnIds :
               /\ conn' = Some([id |-> id, prepared |-> 0])
               /\ result' = Ok("open")
         \/ /\ result' = Err("open", ConnectError)
            /\ UNCHANGED conn

close ==
    /\ conn' = None
    /\ result' = Ok("close")

is_open ==
    /\ result' = [op |-> "is_open", err |-> "", value |-> is_some(conn)]
    /\ UNCHANGED conn

execute(sql) == RunStatement("execute", sql)

query(sql) == RunStatement("query", sql)

get_columns(sql) == RunStatement("get_columns", sql)

\* f is a closure that prepares and runs sql on the connection it is given
with_connection(sql) == RunStatement("with_connection", sql)

InitDatabase ==
    /\ InitCatalog
    /\ InitEmpty
    /\ accounts = <<>>
    /\ account_currency_balances = <<>>
    /\ db_state = <<>>
    /\ conn = None
    /\ pc = [t \in DbThreads |-> "idle"]
    /\ call = [t \in DbThreads |-> ""]

\* a thread calls a method of the Database
CallDatabase(t) ==
    /\ pc[t] = "idle"
    /\ \/ \E op \in StatementOps, sql \in Statements :
              /\ pc' = [pc EXCEPT ![t] = op]
              /\ call' = [call EXCEPT ![t] = sql]
       \/ \E op \in LifecycleOps :
              /\ pc' = [pc EXCEPT ![t] = op]
              /\ UNCHANGED call
    /\ UNCHANGED <<tables, result, db_state, conn>>

\* the thread is idle again
Returned(t) ==
    /\ pc' = [pc EXCEPT ![t] = "idle"]
    /\ call' = [call EXCEPT ![t] = ""]
    /\ UNCHANGED <<tables, db_state>>

Open(t) == pc[t] = "open" /\ open /\ Returned(t)

Close(t) == pc[t] = "close" /\ close /\ Returned(t)

IsOpen(t) == pc[t] = "is_open" /\ is_open /\ Returned(t)

Execute(t) == pc[t] = "execute" /\ execute(call[t]) /\ Returned(t)

Query(t) == pc[t] = "query" /\ query(call[t]) /\ Returned(t)

GetColumns(t) == pc[t] = "get_columns" /\ get_columns(call[t]) /\ Returned(t)

WithConnection(t) ==
    pc[t] = "with_connection" /\ with_connection(call[t]) /\ Returned(t)

NextDatabase ==
    \E t \in DbThreads :
        \/ CallDatabase(t)
        \/ Open(t)
        \/ Close(t)
        \/ IsOpen(t)
        \/ Execute(t)
        \/ Query(t)
        \/ GetColumns(t)
        \/ WithConnection(t)

SpecDatabase == InitDatabase /\ [][NextDatabase]_vars

\* the body of the method that thread t has called runs in this step
Ran(t, op) == pc[t] = op /\ pc'[t] = "idle"

\* a statement runs only on an open connection; without one, the four methods
\* return the error and touch nothing
StatementNeedsConnection ==
    \A t \in DbThreads, op \in StatementOps :
        Ran(t, op) =>
            /\ conn = None => result' = Err(op, NotOpen) /\ conn' = None
            /\ conn # None => result'.err # NotOpen /\ conn' # None
            /\ conn' # conn => conn # None /\ result' = Ok(op)

\* open on an open Database keeps the connection it has
OpenKeepsConnection ==
    \A t \in DbThreads :
        (Ran(t, "open") /\ conn # None) => conn' = conn /\ result' = Ok("open")

\* the connection is there from a successful open to the next close, and is_open
\* tells whether it is there
OpenUntilClosed ==
    /\ \A t \in DbThreads :
          /\ (Ran(t, "open") /\ result' = Ok("open")) => conn' # None
          /\ (Ran(t, "open") /\ result' # Ok("open")) => conn' = None /\ conn = None
          /\ Ran(t, "close") => conn' = None
          /\ Ran(t, "is_open") => result'.value = (conn # None) /\ conn' = conn
    /\ (conn = None /\ conn' # None) =>
           \E t \in DbThreads : Ran(t, "open") /\ result' = Ok("open")
    /\ (conn # None /\ conn' = None) => \E t \in DbThreads : Ran(t, "close")

\* C30: in any interleaving of open, close, execute, query, get_columns and
\* with_connection calls, a statement runs only while the connection is open: the
\* four methods return the not-open error before open and after close; open on an
\* open Database keeps the existing connection; is_open is true exactly from a
\* successful open to the next close
C30_ConnectionLifecycle ==
    [][StatementNeedsConnection /\ OpenKeepsConnection /\ OpenUntilClosed]_vars

\* a statement method has returned the not-open error on a Database that has no
\* connection, while a thread has called open and its body has not run yet
C30_Witness ==
    /\ result.op \in StatementOps
    /\ result.err = NotOpen
    /\ conn = None
    /\ \E t \in DbThreads : pc[t] = "open"

====
